---- MODULE Spec2Model ----
(***************************************************************************)
(* Model of the telegram-autoposter publish pipeline: the idea queue, the  *)
(* pending draft, the history log, the multi-platform fan-out and the      *)
(* three commands of main.py (generate / publish / full), together with    *)
(* the idea editor and the manual draft publish of app.py.                 *)
(*                                                                         *)
(* Python values are represented as follows:                               *)
(*   None            -> << >>            (Optional x is << >> or <<x>>)    *)
(*   dict (ordered)  -> sequence of [k |-> key, v |-> value] records       *)
(*   list            -> sequence                                           *)
(*   idea record     -> [idea |-> t] or [idea |-> t, used |-> b]           *)
(* List indices stored in the data (idea_index) are 0-based as in Python.  *)
(***************************************************************************)
EXTENDS Integers, Sequences, FiniteSets, TLC

\* ------------------------------------------------------------------------
\* Bounds of the model
\* ------------------------------------------------------------------------

\* longest idea list (initial lists and lists grown by the idea editor)
MaxIdeas == 2

\* longest idea list handed to get_next_idea on its own
MaxScan == 3

\* number of file-writing runs (commands, editor actions) in one behaviour
MaxClock == 3

\* longest idea list when every configuration of the image step is explored
MaxGen == 1

\* most images in the image library
MaxLib == 2

\* longest idea list when the three commands run in any order with three
\* publish targets
MaxRunIdeas == 1

\* ------------------------------------------------------------------------
\* State
\* ------------------------------------------------------------------------

VARIABLES
    ideas,            \* ideas.json   : list of idea records
    history,          \* history.json : list of history entries
    pending,          \* pending_post.json : None (no file) or Some(draft)
    clock,            \* logical time: advanced by every run that writes a file;
                      \* datetime.now() in a run reads the advanced value
    publish_targets,  \* config.PUBLISH_TARGETS, as its comma-separated fields
    last,             \* the run that finished last: its exit code, its log
                      \* outcome and the external calls it made, in order
    ret,              \* value returned by the last direct call of a function
    gh,               \* the GitHub repository: pending_post.json, ideas.json and
                      \* history.json, each None (no file) or Some(content)
    app,              \* ideas.json and history.json on the host of app.py
    auto,             \* a run of cmd_publish in progress: position and locals
    manual,           \* a manual draft publish of app.py in progress
    tg_posts,         \* who has posted to the Telegram channel, in order
    editor,           \* a second session of app.py editing the draft
    full,             \* a run of cmd_full in progress: position and locals
    config,           \* config.py: IMAGE_SOURCE, IMAGE_PROVIDER, FACE_SWAP_PROVIDER,
                      \* and whether expert_face.json holds a face
    library,          \* image_library.json (images, next_index) and the indices
                      \* whose image file exists in image_library/
    call,             \* the arguments and settings of a direct call of a function
                      \* (an adapter's send_post, _parse_response, retry), with
                      \* the answer of each request or attempt it may make
    retrying          \* the position of a call of utils.retry in its loop, with
                      \* the calls of fn and the sleeps it has made

files == <<ideas, history, pending>>

\* the state used only when runs overlap
remote == <<gh, app, auto, manual, tg_posts, editor, full>>

\* the configuration, the image library and the adapter call
env == <<config, library, call, retrying>>

vars == <<ideas, history, pending, clock, publish_targets, last, ret,
          gh, app, auto, manual, tg_posts, editor, full, config, library, call, retrying>>

\* ------------------------------------------------------------------------
\* Input domains
\* ------------------------------------------------------------------------

\* idea texts typed by the user
Texts == {"a", "b"}

\* post texts a text provider can return
PostTexts == {"p1"}

\* an adapter either raises or returns {"result": {"message_id": m}}; the
\* message id is opaque to the program, one value per platform is modelled
Outcomes == {"raise", "ok"}

MsgId(platform) ==
    CASE platform = "telegram"  -> 1
      [] platform = "vk"        -> 2
      [] platform = "max"       -> 3
      [] platform = "pinterest" -> 4

\* fields of PUBLISH_TARGETS between the commas, before strip()
TargetConfigs ==
    { <<"telegram">>,
      <<"vk", " telegram ">>,
      <<"other", "", "max">> }

\* ------------------------------------------------------------------------
\* Python value helpers
\* ------------------------------------------------------------------------

None == << >>

Some(x) == <<x>>

\* dict.get(key) is not None
RECURSIVE DictHas(_, _)
DictHas(d, key) ==
    IF d = << >> THEN FALSE
    ELSE IF Head(d).k = key THEN TRUE
    ELSE DictHas(Tail(d), key)

\* dict.get(key, default)
RECURSIVE DictGet(_, _, _)
DictGet(d, key, default) ==
    IF d = << >> THEN default
    ELSE IF Head(d).k = key THEN Head(d).v
    ELSE DictGet(Tail(d), key, default)

\* d[key] = value : an existing key keeps its position, a new key is appended
DictSet(d, key, value) ==
    IF DictHas(d, key)
    THEN [i \in 1..Len(d) |-> IF d[i].k = key THEN [k |-> key, v |-> value] ELSE d[i]]
    ELSE Append(d, [k |-> key, v |-> value])

\* list(d.keys())
DictKeys(d) == [i \in 1..Len(d) |-> d[i].k]

\* str.strip() on the fields that occur in TargetConfigs
Strip(s) ==
    CASE s = " telegram " -> "telegram"
      [] OTHER            -> s

\* ------------------------------------------------------------------------
\* Idea queue (main.py)
\* ------------------------------------------------------------------------

\* variant: a record without the flag counts as used
IsUsed_missingIsUsed(item) == IF "used" \in DOMAIN item THEN item.used ELSE TRUE

\* item.get("used", False)
IsUsed(item) == IF "used" \in DOMAIN item THEN item.used ELSE FALSE

\* for i, item in enumerate(ideas)[i..]: first unused -> (i, text), else None
RECURSIVE ScanIdeas(_, _)
ScanIdeas(list, i) ==
    IF i >= Len(list) THEN None
    ELSE IF ~IsUsed(list[i + 1]) THEN <<i, list[i + 1].idea>>
    ELSE ScanIdeas(list, i + 1)

\* variant: the first record whatever its flag
get_next_idea_ignoresUsed(list) ==
    IF list = << >> THEN None ELSE <<0, list[1].idea>>

get_next_idea(list) == ScanIdeas(list, 0)

\* the flag set on the first record whatever the index
SetUsed_marksFirst(list, idx) ==
    [list EXCEPT ![1] = [idea |-> @.idea, used |-> TRUE]]

\* ideas[idx]["used"] = True
SetUsed(list, idx) ==
    [list EXCEPT ![idx + 1] = [idea |-> @.idea, used |-> TRUE]]

\* ------------------------------------------------------------------------
\* History (main.py)
\* ------------------------------------------------------------------------

TEXT_PROVIDER == "claude"

IMAGE_PROVIDER == config.image_provider

\* variant: the new entry is put in front of the earlier ones
add_history_entry_prepends(hist, idea, post_text, message_id, platform_ids, now) ==
    <<[date |-> now,
       idea |-> idea,
       post_text |-> post_text,
       text_provider |-> TEXT_PROVIDER,
       image_provider |-> IMAGE_PROVIDER,
       message_id |-> message_id,
       platform_ids |-> platform_ids]>> \o hist

\* add_history_entry that writes nothing
add_history_entry_skips(hist, idea, post_text, message_id, platform_ids, now) == hist

\* history.append(entry) with the entry built by add_history_entry
add_history_entry(hist, idea, post_text, message_id, platform_ids, now) ==
    LET entry == [date |-> now,
                  idea |-> idea,
                  post_text |-> post_text,
                  text_provider |-> TEXT_PROVIDER,
                  image_provider |-> IMAGE_PROVIDER,
                  message_id |-> message_id]
        with_ids == IF platform_ids # << >>
                THEN [date |-> now,
                      idea |-> idea,
                      post_text |-> post_text,
                      text_provider |-> TEXT_PROVIDER,
                      image_provider |-> IMAGE_PROVIDER,
                      message_id |-> message_id,
                      platform_ids |-> platform_ids]
                ELSE entry
    IN Append(hist, with_ids)

\* ------------------------------------------------------------------------
\* Fan-out (main.py publish_to_all)
\* ------------------------------------------------------------------------

Platforms == {"telegram", "vk", "max", "pinterest"}

\* targets = [t.strip() for t in PUBLISH_TARGETS.split(",") if t.strip()]
RECURSIVE ParseTargets(_)
ParseTargets(fields) ==
    IF fields = << >> THEN << >>
    ELSE IF Strip(Head(fields)) # ""
         THEN <<Strip(Head(fields))>> \o ParseTargets(Tail(fields))
         ELSE ParseTargets(Tail(fields))

\* variant: the id slot of a target is filled before its adapter is called, so
\* a target whose adapter raises is left in the dict
RECURSIVE FanOut_recordsFailures(_, _, _, _)
FanOut_recordsFailures(targets, out, i, acc) ==
    IF i > Len(targets) THEN acc
    ELSE LET target == targets[i] IN
         IF target \in Platforms
         THEN FanOut_recordsFailures(targets, out, i + 1,
                  [platform_ids |-> DictSet(acc.platform_ids, target, MsgId(target)),
                   calls |-> Append(acc.calls, target),
                   accepted |-> IF out[i] = "raise" THEN acc.accepted
                                ELSE Append(acc.accepted, target)])
         ELSE FanOut_recordsFailures(targets, out, i + 1, acc)

\* variant: the try block encloses the loop, so the first adapter that raises
\* ends the fan-out
RECURSIVE FanOut_stopsAtRaise(_, _, _, _)
FanOut_stopsAtRaise(targets, out, i, acc) ==
    IF i > Len(targets) THEN acc
    ELSE LET target == targets[i] IN
         IF target \in Platforms
         THEN IF out[i] = "raise"
              THEN [platform_ids |-> acc.platform_ids,
                    calls |-> Append(acc.calls, target),
                    accepted |-> acc.accepted]
              ELSE FanOut_stopsAtRaise(targets, out, i + 1,
                       [platform_ids |-> DictSet(acc.platform_ids, target, MsgId(target)),
                        calls |-> Append(acc.calls, target),
                        accepted |-> Append(acc.accepted, target)])
         ELSE FanOut_stopsAtRaise(targets, out, i + 1, acc)

\* One iteration of the loop per target; out[i] is what the adapter of the
\* i-th target does when it is called.  acc.platform_ids is the dict built so
\* far; acc.calls (the adapters called so far) and acc.accepted (the adapters
\* that returned a result) record what happened outside the program.
RECURSIVE FanOut(_, _, _, _)
FanOut(targets, out, i, acc) ==
    IF i > Len(targets) THEN acc
    ELSE LET target == targets[i] IN
         IF target \in Platforms
         THEN IF out[i] = "raise"
              THEN FanOut(targets, out, i + 1,
                          [platform_ids |-> acc.platform_ids,
                           calls |-> Append(acc.calls, target),
                           accepted |-> acc.accepted])
              ELSE FanOut(targets, out, i + 1,
                          [platform_ids |-> DictSet(acc.platform_ids, target, MsgId(target)),
                           calls |-> Append(acc.calls, target),
                           accepted |-> Append(acc.accepted, target)])
         ELSE FanOut(targets, out, i + 1, acc)

publish_to_all(fields, out) ==
    FanOut(ParseTargets(fields), out, 1,
           [platform_ids |-> << >>, calls |-> << >>, accepted |-> << >>])

\* if not platform_ids
PublishFailed(platform_ids) == platform_ids = << >>

\* the id of the last platform that accepted taken when Telegram did not
MessageId_lastAccepted(platform_ids) ==
    DictGet(platform_ids, "telegram", platform_ids[Len(platform_ids)].v)

\* platform_ids.get("telegram", list(platform_ids.values())[0])
MessageId(platform_ids) == DictGet(platform_ids, "telegram", platform_ids[1].v)

\* ------------------------------------------------------------------------
\* Pending draft (main.py)
\* ------------------------------------------------------------------------

\* variant: the status of the draft is not looked at
NothingToPublish_statusIgnored(draft_file) == draft_file = None

\* cmd_publish returns early: no file, or a draft that is not pending
NothingToPublish(draft_file) ==
    IF draft_file = None THEN TRUE ELSE draft_file[1].status # "pending"

\* cmd_generate warns that an unpublished draft is about to be overwritten
OldDraftPending(old) ==
    IF old = None THEN FALSE ELSE old[1].status = "pending"

\* variant: an unpublished draft is kept instead of being overwritten
save_pending_keepsPending(old, data) ==
    IF old = None THEN Some(data)
    ELSE IF old[1].status = "pending" /\ data.status = "pending" THEN old
    ELSE Some(data)

\* save_pending(data): the file is rewritten whole
save_pending(old, data) == Some(data)

\* the dict cmd_generate passes to save_pending
NewDraft(idea, idx, post_text, image_prompt, image_b64, image_provider, face_swap_used, now) ==
    [status |-> "pending",
     created_at |-> now,
     idea |-> idea,
     idea_index |-> idx,
     post_text |-> post_text,
     image_prompt |-> image_prompt,
     image_base64 |-> image_b64,
     text_provider |-> TEXT_PROVIDER,
     image_provider |-> image_provider,
     face_swap_provider |-> face_swap_used,
     published_at |-> None,
     message_id |-> None,
     published_by |-> None]

\* variant: message_id is left null
Published_noMessageId(draft, message_id, platform_ids, now) ==
    [status |-> "published",
     created_at |-> draft.created_at,
     idea |-> draft.idea,
     idea_index |-> draft.idea_index,
     post_text |-> draft.post_text,
     image_prompt |-> draft.image_prompt,
     image_base64 |-> draft.image_base64,
     text_provider |-> draft.text_provider,
     image_provider |-> draft.image_provider,
     face_swap_provider |-> draft.face_swap_provider,
     published_at |-> Some(now),
     message_id |-> None,
     published_by |-> Some("auto"),
     platform_ids |-> platform_ids]

\* the draft as cmd_publish rewrites it after a publish
Published(draft, message_id, platform_ids, now) ==
    [status |-> "published",
     created_at |-> draft.created_at,
     idea |-> draft.idea,
     idea_index |-> draft.idea_index,
     post_text |-> draft.post_text,
     image_prompt |-> draft.image_prompt,
     image_base64 |-> draft.image_base64,
     text_provider |-> draft.text_provider,
     image_provider |-> draft.image_provider,
     face_swap_provider |-> draft.face_swap_provider,
     published_at |-> Some(now),
     message_id |-> Some(message_id),
     published_by |-> Some("auto"),
     platform_ids |-> platform_ids]

\* cmd_publish marks the idea at the draft's idea_index
\* variant: the idea is never marked
MarkUsedByIndex_skips(list, idx) == list

MarkUsedByIndex(list, idx) ==
    IF idx < Len(list) THEN SetUsed(list, idx) ELSE list

\* ------------------------------------------------------------------------
\* Configuration and image library (config.py, image_library.py)
\* ------------------------------------------------------------------------

\* the defaults of config.py, with no expert face uploaded
DefaultConfig ==
    [image_source |-> "generate", image_provider |-> "gemini",
     face_swap_provider |-> "", expert_face |-> FALSE]

\* every configuration of the image step
Configs ==
    [image_source : {"generate", "library"},
     image_provider : {"gemini", "openai"},
     face_swap_provider : {"", "replicate", "gemini", "openai"},
     expert_face : BOOLEAN]

\* load_index when image_library.json does not exist
EmptyLibrary == [images |-> << >>, next_index |-> 0, stored |-> {}]

\* no adapter is called directly
NoCall == [platform |-> "none"]

\* retry is not running
NotRetrying == [pc |-> "idle"]

EnvDefault ==
    /\ config = DefaultConfig
    /\ library = EmptyLibrary
    /\ call = NoCall
    /\ retrying = NotRetrying

\* the base64 content of library image number index
LibB64(index) == "lib" \o ToString(index)

\* count()
lib_count(lib) == Len(lib.images)

\* get_next_image: (b64, index) of the entry under the pointer, (None, None)
\* for an empty library; b64 is None when the image file is missing
get_next_image(lib) ==
    IF lib.images = << >> THEN [b64 |-> None, index |-> None]
    ELSE LET pos == IF lib.next_index >= Len(lib.images) THEN 0 ELSE lib.next_index
             index == lib.images[pos + 1]
         IN [b64 |-> IF index \in lib.stored THEN Some(LibB64(index)) ELSE None,
             index |-> Some(index)]

\* advance_pointer wrapping one step late
advance_pointer_wrapsLate(lib) ==
    IF lib.images = << >> THEN lib
    ELSE LET pos == lib.next_index + 1
         IN [lib EXCEPT !.next_index = IF pos > Len(lib.images) THEN 0 ELSE pos]

\* advance_pointer: next_index + 1, wrapping to 0
advance_pointer(lib) ==
    IF lib.images = << >> THEN lib
    ELSE LET pos == lib.next_index + 1
         IN [lib EXCEPT !.next_index = IF pos >= Len(lib.images) THEN 0 ELSE pos]

\* the image step shared by cmd_generate and cmd_full: from the library, or
\* generated (with the expert face inline, or with a separate face swap whose
\* failure is logged and the original image kept)
get_image(cfg, lib, image, swap) ==
    LET fs == cfg.face_swap_provider
        expert_b64 == fs # "" /\ cfg.expert_face
        inline_face == fs = "gemini" /\ cfg.image_provider = "gemini" /\ expert_b64
        fail(calls, step) == [exit |-> 1, calls |-> calls, raised |-> <<step>>,
                              library |-> lib, image |-> "", face_swap_used |-> ""]
    IN
    IF cfg.image_source = "library"
    THEN IF lib_count(lib) = 0 THEN fail(<< >>, "library")
         ELSE LET nxt == get_next_image(lib) IN
              IF nxt.b64 = None THEN fail(<< >>, "library")
              ELSE [exit |-> 0, calls |-> << >>, raised |-> << >>,
                    library |-> advance_pointer(lib),
                    image |-> nxt.b64[1], face_swap_used |-> ""]
    ELSE IF inline_face
    THEN IF image = "raise" THEN fail(<<"image_inline">>, "image_inline")
         ELSE [exit |-> 0, calls |-> <<"image_inline">>, raised |-> << >>, library |-> lib,
               image |-> "i1f", face_swap_used |-> "gemini-inline"]
    ELSE IF image = "raise" THEN fail(<<"image">>, "image")
    ELSE IF fs \in {"replicate", "openai"} /\ expert_b64
    THEN IF swap = "raise"
         THEN [exit |-> 0, calls |-> <<"image", "face_swap">>,
               raised |-> <<"face_swap">>, library |-> lib,
               image |-> "i1", face_swap_used |-> ""]
         ELSE [exit |-> 0, calls |-> <<"image", "face_swap">>, raised |-> << >>,
               library |-> lib, image |-> "i1s", face_swap_used |-> fs]
    ELSE [exit |-> 0, calls |-> <<"image">>, raised |-> << >>, library |-> lib,
          image |-> "i1", face_swap_used |-> ""]

\* the outcomes the image call, the face swap call and the encoding can have
\* under a configuration (a step that is not run has one outcome)
ImageOutcomes(cfg) ==
    IF cfg.image_source = "library" THEN {"ok"} ELSE {"raise", "ok"}

SwapOutcomes(cfg) ==
    IF /\ cfg.image_source # "library"
       /\ cfg.face_swap_provider \in {"replicate", "openai"}
       /\ cfg.expert_face
    THEN {"raise", "ok"} ELSE {"ok"}

EncodeOutcomes(cfg) ==
    IF cfg.image_source = "library" THEN {"ok"} ELSE {"raise", "ok"}

\* "library" if IMAGE_SOURCE == "library" else IMAGE_PROVIDER
DraftImageProvider(cfg) ==
    IF cfg.image_source = "library" THEN "library" ELSE cfg.image_provider

\* all idea lists of length at most n; a record may lack the "used" key
IdeaRecords ==
    [idea : Texts] \cup [idea : Texts, used : BOOLEAN]

IdeaLists(n) == UNION {[1..k -> IdeaRecords] : k \in 0..n}

\* the idea lists the editor and a hand-written ideas.json start from
FreshIdeaLists(n) ==
    UNION {[1..k -> [idea : Texts] \cup [idea : Texts, used : {FALSE}]] : k \in 0..n}

\* the report of one run
\* the report of a run: calls are the provider calls made, raised the steps
\* among them that failed
ReportRaised(cmd, exit, outcome, calls, raised, fan) ==
    [cmd |-> cmd, exit |-> exit, outcome |-> outcome, calls |-> calls,
     raised |-> raised,
     sends |-> fan.calls, accepted |-> fan.accepted, platform_ids |-> fan.platform_ids]

\* the report of a run in which no provider call failed
Report(cmd, exit, outcome, calls, fan) ==
    ReportRaised(cmd, exit, outcome, calls, << >>, fan)

NoFan == [platform_ids |-> << >>, calls |-> << >>, accepted |-> << >>]

\* no run in progress
AutoIdle == [pc |-> "idle", draft |-> None, fan |-> None, exit |-> None, at |-> None]

ManualIdle ==
    [pc |-> "idle", draft |-> None, sha |-> None, text |-> None, msg_id |-> None,
     err1 |-> None, buf |-> None, buf_sha |-> None]

EditorIdle == [pc |-> "idle", draft |-> None, sha |-> None, err |-> None]

FullIdle ==
    [pc |-> "idle", started |-> None, ideas |-> None, idx |-> None, idea |-> None,
     post_text |-> None, fan |-> None, exit |-> None]

RemoteUnused ==
    /\ gh = [pending |-> None, ideas |-> None, history |-> None]
    /\ app = [ideas |-> << >>, history |-> << >>]
    /\ auto = AutoIdle
    /\ manual = ManualIdle
    /\ tg_posts = << >>
    /\ editor = EditorIdle
    /\ full = FullIdle

Init ==
    /\ ideas \in FreshIdeaLists(MaxIdeas)
    /\ history = << >>
    /\ pending = None
    /\ clock = 0
    /\ publish_targets \in TargetConfigs
    /\ last = Report("start", 0, "start", << >>, NoFan)
    /\ ret = None
    /\ RemoteUnused
    /\ EnvDefault

\* ------------------------------------------------------------------------
\* cmd_generate (main.py)
\* ------------------------------------------------------------------------

\* text is what generate_post does (raises, or returns a post text); image is
\* what obtaining and encoding the image does (raises / exits 1, or succeeds)
CmdGenerate ==
    \E text \in {"raise"} \cup PostTexts, image \in ImageOutcomes(config),
       swap \in SwapOutcomes(config), encode \in EncodeOutcomes(config) :
        LET result == get_next_idea(ideas)
            g == get_image(config, library, image, swap)
            calls == <<"text">> \o g.calls
        IN
        IF result = None
        THEN /\ last' = Report("generate", 0, "no_ideas", << >>, NoFan)
             /\ UNCHANGED <<files, clock, publish_targets, ret, remote, env>>
        ELSE IF text = "raise"
        THEN /\ last' = ReportRaised("generate", 1, "error", <<"text">>, <<"text">>, NoFan)
             /\ UNCHANGED <<files, clock, publish_targets, ret, remote, env>>
        ELSE IF g.exit # 0
        THEN /\ last' = ReportRaised("generate", 1, "error", calls, g.raised, NoFan)
             /\ UNCHANGED <<files, clock, publish_targets, ret, remote, env>>
        ELSE IF config.image_source # "library" /\ encode = "raise"
        THEN /\ last' = ReportRaised("generate", 1, "error", Append(calls, "encode"),
                                       Append(g.raised, "encode"), NoFan)
             /\ UNCHANGED <<files, clock, publish_targets, ret, remote, env>>
        ELSE /\ clock < MaxClock
             /\ clock' = clock + 1
             /\ library' = g.library
             /\ pending' = save_pending(pending,
                               NewDraft(result[2], result[1], text, "q1", g.image,
                                        DraftImageProvider(config), g.face_swap_used,
                                        clock + 1))
             /\ last' = ReportRaised("generate", 0,
                                     IF OldDraftPending(pending) THEN "draft_overwritten"
                                                                 ELSE "draft_saved",
                                     IF config.image_source = "library"
                                     THEN calls ELSE Append(calls, "encode"),
                                     g.raised, NoFan)
             /\ UNCHANGED <<ideas, history, publish_targets, ret, remote, config, call, retrying>>

\* ------------------------------------------------------------------------
\* cmd_publish (main.py)
\* ------------------------------------------------------------------------

\* the outcome of every adapter call of one fan-out
FanOutcomes == [1..Len(ParseTargets(publish_targets)) -> Outcomes]

CmdPublish ==
    IF NothingToPublish(pending)
    THEN /\ last' = Report("publish", 0, "skipped", << >>, NoFan)
         /\ UNCHANGED <<files, clock, publish_targets, ret, remote, env>>
    ELSE \E out \in FanOutcomes :
        LET draft == pending[1]
            r == publish_to_all(publish_targets, out)
        IN
        IF PublishFailed(r.platform_ids)
        THEN /\ last' = Report("publish", 1, "failed", << >>, r)
             /\ UNCHANGED <<files, clock, publish_targets, ret, remote, env>>
        ELSE LET message_id == MessageId(r.platform_ids) IN
             /\ clock < MaxClock
             /\ clock' = clock + 1
             /\ ideas' = MarkUsedByIndex(ideas, draft.idea_index)
             /\ history' = add_history_entry(history, draft.idea, draft.post_text,
                                             message_id, r.platform_ids, clock + 1)
             /\ pending' = save_pending(pending,
                               Published(draft, message_id, r.platform_ids, clock + 1))
             /\ last' = Report("publish", 0, "published", << >>, r)
             /\ UNCHANGED <<publish_targets, ret, remote, env>>

\* ------------------------------------------------------------------------
\* cmd_full (main.py)
\* ------------------------------------------------------------------------

CmdFull ==
    \E text \in {"raise"} \cup PostTexts, image \in ImageOutcomes(config),
       swap \in SwapOutcomes(config) :
        LET result == get_next_idea(ideas)
            g == get_image(config, library, image, swap)
            calls == <<"text">> \o g.calls
        IN
        IF result = None
        THEN /\ last' = Report("full", 0, "no_ideas", << >>, NoFan)
             /\ UNCHANGED <<files, clock, publish_targets, ret, remote, env>>
        ELSE IF text = "raise"
        THEN /\ last' = ReportRaised("full", 1, "error", <<"text">>, <<"text">>, NoFan)
             /\ UNCHANGED <<files, clock, publish_targets, ret, remote, env>>
        ELSE IF g.exit # 0
        THEN /\ last' = ReportRaised("full", 1, "error", calls, g.raised, NoFan)
             /\ UNCHANGED <<files, clock, publish_targets, ret, remote, env>>
        ELSE \E out \in FanOutcomes :
            LET r == publish_to_all(publish_targets, out) IN
            IF PublishFailed(r.platform_ids)
            THEN /\ last' = ReportRaised("full", 1, "failed", calls, g.raised, r)
                 /\ library' = g.library
                 /\ UNCHANGED <<files, clock, publish_targets, ret, remote, config, call, retrying>>
            ELSE /\ clock < MaxClock
                 /\ clock' = clock + 1
                 /\ library' = g.library
                 /\ ideas' = SetUsed(ideas, result[1])
                 /\ history' = add_history_entry(history, result[2], text,
                                                 MessageId(r.platform_ids),
                                                 r.platform_ids, clock + 1)
                 /\ last' = ReportRaised("full", 0, "published", calls, g.raised, r)
                 /\ UNCHANGED <<pending, publish_targets, ret, remote, config, call, retrying>>

\* ------------------------------------------------------------------------
\* Idea editor (app.py tab_ideas)
\* ------------------------------------------------------------------------

\* list.pop(i), i 0-based
Pop(list, i) == [j \in 1..(Len(list) - 1) |-> IF j <= i THEN list[j] ELSE list[j + 1]]

UiAddIdea ==
    \E new_idea \in Texts :
        /\ Len(ideas) < MaxIdeas
        /\ clock < MaxClock
        /\ clock' = clock + 1
        /\ ideas' = Append(ideas, [idea |-> new_idea, used |-> FALSE])
        /\ last' = Report("ui_add", 0, "saved", << >>, NoFan)
        /\ UNCHANGED <<history, pending, publish_targets, ret, remote, env>>

UiResetIdea ==
    \E i \in 0..(Len(ideas) - 1) :
        /\ IsUsed(ideas[i + 1])
        /\ clock < MaxClock
        /\ clock' = clock + 1
        /\ ideas' = [ideas EXCEPT ![i + 1] = [idea |-> @.idea, used |-> FALSE]]
        /\ last' = Report("ui_reset", 0, "saved", << >>, NoFan)
        /\ UNCHANGED <<history, pending, publish_targets, ret, remote, env>>

UiDeleteIdea ==
    \E i \in 0..(Len(ideas) - 1) :
        /\ clock < MaxClock
        /\ clock' = clock + 1
        /\ ideas' = Pop(ideas, i)
        /\ last' = Report("ui_delete", 0, "saved", << >>, NoFan)
        /\ UNCHANGED <<history, pending, publish_targets, ret, remote, env>>

\* ------------------------------------------------------------------------
\* Specification: runs of the commands and of the idea editor, one after
\* another
\* ------------------------------------------------------------------------

Next ==
    \/ CmdGenerate
    \/ CmdPublish
    \/ CmdFull
    \/ UiAddIdea
    \/ UiResetIdea
    \/ UiDeleteIdea

Spec == Init /\ [][Next]_vars

TypeOK ==
    /\ Len(ideas) <= MaxIdeas
    /\ clock \in 0..MaxClock
    /\ Len(pending) <= 1
    /\ Len(history) <= clock

\* ------------------------------------------------------------------------
\* Specification: get_next_idea called on its own on every idea list
\* ------------------------------------------------------------------------

ScanInit ==
    /\ ideas \in IdeaLists(MaxScan)
    /\ history = << >>
    /\ pending = None
    /\ clock = 0
    /\ publish_targets = <<"telegram">>
    /\ last = Report("start", 0, "start", << >>, NoFan)
    /\ ret = None
    /\ RemoteUnused
    /\ EnvDefault

CallGetNextIdea ==
    /\ last.cmd = "start"
    /\ ret' = get_next_idea(ideas)
    /\ last' = Report("get_next_idea", 0, "returned", << >>, NoFan)
    /\ UNCHANGED <<files, clock, publish_targets, remote, env>>

ScanNext == CallGetNextIdea

SpecScan == ScanInit /\ [][ScanNext]_vars

\* ------------------------------------------------------------------------
\* Specification: one run of cmd_generate or cmd_full under every
\* configuration of the image step, on every short idea list
\* ------------------------------------------------------------------------

\* the libraries add_image builds: images 1..k, the pointer inside the list,
\* every image file present or the file of the last image missing
Libraries(n) ==
    {[images |-> [i \in 1..k |-> i], next_index |-> ptr, stored |-> (1..k) \ gone] :
        k \in 0..n, ptr \in 0..n, gone \in {{}, {n}, {n - 1}}}

GenLibraries(n) ==
    {lib \in Libraries(n) :
        /\ lib.next_index < Len(lib.images) \/ lib.next_index = 0
        /\ Cardinality(lib.stored) >= Len(lib.images) - 1}

\* a draft left by an earlier run of cmd_generate
EarlierDraft == NewDraft("a", 0, "p1", "q1", "i1", "gemini", "", 1)

GenInit ==
    /\ ideas \in IdeaLists(MaxGen)
    /\ history = << >>
    /\ pending \in {None, Some(EarlierDraft)}
    /\ clock = 1
    /\ publish_targets = <<"telegram">>
    /\ last = Report("start", 0, "start", << >>, NoFan)
    /\ ret = None
    /\ RemoteUnused
    /\ config \in Configs
    /\ library \in GenLibraries(MaxLib)
    /\ call = NoCall
    /\ retrying = NotRetrying

\* the command line names the command to run, once
RunGenerate == last.cmd = "start" /\ CmdGenerate

RunFull == last.cmd = "start" /\ CmdFull

GenNext == RunGenerate \/ RunFull

SpecGen == GenInit /\ [][GenNext]_vars

\* ------------------------------------------------------------------------
\* Specification: cmd_publish and the manual draft publish of app.py run
\* at the same time, one network call or file access per step
\* ------------------------------------------------------------------------

\* text the operator may leave in the draft editor besides the draft's own
EditedTexts == {"e1"}

\* the sha GitHub reports for a file: a collision-free digest of its content
BlobSha(content) == <<"sha", content>>

\* read_github_file: (content, sha), or (None, None) when the file is absent or
\* the request fails
read_github_file(g, path, net) ==
    IF net = "ok" /\ g[path] # None
    THEN [content |-> g[path], sha |-> Some(BlobSha(g[path][1]))]
    ELSE [content |-> None, sha |-> None]

\* the Contents API stores a PUT only when its sha names the current blob of
\* the file (no sha: only when the file does not exist)
GhAccepts(g, path, sha) ==
    IF g[path] = None THEN sha = None ELSE sha = Some(BlobSha(g[path][1]))

\* write_github_file: the repository afterwards and the (ok, err) it returns;
\* a PUT whose sha is stale is answered with a 409
write_github_file(g, path, content, sha, net) ==
    IF net # "ok" THEN [gh |-> g, ok |-> FALSE, err |-> "network"]
    ELSE IF GhAccepts(g, path, sha)
    THEN [gh |-> [g EXCEPT ![path] = Some(content)], ok |-> TRUE, err |-> ""]
    ELSE [gh |-> g, ok |-> FALSE, err |-> "HTTP 409"]

\* the pending dict after lines 1263-1267 of the manual publish
ManualPublished(draft, msg_id, draft_text, now) ==
    [draft EXCEPT !.status = "published",
                  !.published_at = Some(now),
                  !.message_id = Some(msg_id),
                  !.published_by = Some("manual"),
                  !.post_text = draft_text]

\* the history entry the manual publish appends
ManualHistoryEntry(draft, draft_text, msg_id, now) ==
    [date |-> now,
     idea |-> draft.idea,
     post_text |-> draft_text,
     text_provider |-> draft.text_provider,
     image_provider |-> draft.image_provider,
     message_id |-> msg_id]

\* the files after the commands that ran before: nothing staged, a draft
\* staged by cmd_generate, or that draft already published by cmd_publish
StagedFiles(list, phase) ==
    LET result == get_next_idea(list)
        draft == NewDraft(result[2], result[1], "p1", "q1", "i1", IMAGE_PROVIDER, "", 1)
        pids == <<[k |-> "telegram", v |-> MsgId("telegram")]>>
    IN
    IF phase = "none" THEN [ideas |-> list, history |-> << >>, pending |-> None]
    ELSE IF phase = "pending"
    THEN [ideas |-> list, history |-> << >>, pending |-> Some(draft)]
    ELSE [ideas |-> MarkUsedByIndex(list, draft.idea_index),
          history |-> add_history_entry(<< >>, draft.idea, draft.post_text,
                                        MessageId(pids), pids, 2),
          pending |-> Some(Published(draft, MessageId(pids), pids, 2))]

\* the publish job has checked out the repository; app.py is open on its host
ConcInit ==
    /\ EnvDefault
    /\ \E list \in FreshIdeaLists(MaxIdeas), phase \in {"none", "pending", "published"} :
           /\ get_next_idea(list) # None
           /\ LET f == StagedFiles(list, phase) IN
              /\ ideas = f.ideas
              /\ history = f.history
              /\ pending = f.pending
              /\ gh = [pending |-> f.pending,
                       ideas |-> Some(f.ideas),
                       history |-> Some(f.history)]
              /\ app = [ideas |-> f.ideas, history |-> f.history]
    /\ clock = 2
    /\ publish_targets \in TargetConfigs
    /\ last = Report("start", 0, "start", << >>, NoFan)
    /\ ret = None
    /\ auto = AutoIdle
    /\ manual = ManualIdle
    /\ tg_posts = << >>
    /\ editor = EditorIdle
    /\ full = FullIdle

\* ---- cmd_publish, step by step ----

\* load_pending and the two early returns
AutoLoad ==
    /\ auto.pc = "idle"
    /\ auto' = IF NothingToPublish(pending)
               THEN [auto EXCEPT !.pc = "done", !.exit = Some(0)]
               ELSE [auto EXCEPT !.pc = "loaded", !.draft = pending]
    /\ UNCHANGED <<files, clock, publish_targets, last, ret, gh, app, manual, tg_posts,
                   editor, full, env>>

\* publish_to_all and the exit when no platform accepted
AutoSend ==
    /\ auto.pc = "loaded"
    /\ \E out \in FanOutcomes :
           LET r == publish_to_all(publish_targets, out) IN
           /\ auto' = IF PublishFailed(r.platform_ids)
                      THEN [auto EXCEPT !.pc = "done", !.fan = Some(r), !.exit = Some(1)]
                      ELSE [auto EXCEPT !.pc = "sent", !.fan = Some(r)]
           /\ tg_posts' = IF DictHas(r.platform_ids, "telegram")
                          THEN Append(tg_posts, "auto")
                          ELSE tg_posts
    /\ UNCHANGED <<files, clock, publish_targets, last, ret, gh, app, manual,
                   editor, full, env>>

\* load_ideas, mark by index, save_ideas
AutoMark ==
    /\ auto.pc = "sent"
    /\ ideas' = MarkUsedByIndex(ideas, auto.draft[1].idea_index)
    /\ auto' = [auto EXCEPT !.pc = "marked"]
    /\ UNCHANGED <<history, pending, clock, publish_targets, last, ret,
                   gh, app, manual, tg_posts,
                   editor, full, env>>

\* add_history_entry
AutoHistory ==
    /\ auto.pc = "marked"
    /\ LET draft == auto.draft[1]
           pids == auto.fan[1].platform_ids
       IN history' = add_history_entry(history, draft.idea, draft.post_text,
                                       MessageId(pids), pids, clock + 1)
    /\ clock' = clock + 1
    /\ auto' = [auto EXCEPT !.pc = "logged"]
    /\ UNCHANGED <<ideas, pending, publish_targets, last, ret, gh, app, manual, tg_posts,
                   editor, full, env>>

\* the terminal fields and save_pending
AutoSave ==
    /\ auto.pc = "logged"
    /\ LET pids == auto.fan[1].platform_ids
       IN pending' = save_pending(pending,
                         Published(auto.draft[1], MessageId(pids), pids, clock + 1))
    /\ clock' = clock + 1
    /\ auto' = [auto EXCEPT !.pc = "done", !.exit = Some(0)]
    /\ UNCHANGED <<ideas, history, publish_targets, last, ret, gh, app, manual, tg_posts,
                   editor, full, env>>

\* the process is killed between two steps of cmd_publish
AutoCrash ==
    /\ auto.pc \in {"loaded", "sent", "marked", "logged"}
    /\ auto' = [auto EXCEPT !.pc = "crashed", !.at = Some(auto.pc)]
    /\ UNCHANGED <<files, clock, publish_targets, last, ret, gh, app, manual, tg_posts,
                   editor, full, env>>

\* ---- the manual draft publish of tab_auto, step by step ----

Net == {"ok", "fail"}

\* the rerun started by the button reads pending_post.json from GitHub; the
\* button exists only under a draft whose status is "pending"
ManRead ==
    /\ manual.pc = "idle"
    /\ \E net \in Net :
           LET r == read_github_file(gh, "pending", net) IN
           manual' = IF r.content = None THEN [manual EXCEPT !.pc = "done"]
                     ELSE IF r.content[1].status = "pending"
                     THEN [manual EXCEPT !.pc = "form", !.draft = r.content, !.sha = r.sha]
                     ELSE [manual EXCEPT !.pc = "done"]
    /\ UNCHANGED <<files, clock, publish_targets, last, ret, gh, app, auto, tg_posts,
                   editor, full, env>>

\* send_post to Telegram with the text of the editor
ManSend ==
    /\ manual.pc = "form"
    /\ \E draft_text \in {manual.draft[1].post_text} \cup EditedTexts, out \in Outcomes :
           IF out = "raise"
           THEN /\ manual' = [manual EXCEPT !.pc = "done"]
                /\ UNCHANGED tg_posts
           ELSE /\ manual' = [manual EXCEPT !.pc = "sent",
                                            !.text = Some(draft_text),
                                            !.msg_id = Some(MsgId("telegram"))]
                /\ tg_posts' = Append(tg_posts, "manual")
    /\ UNCHANGED <<files, clock, publish_targets, last, ret, gh, app, auto,
                   editor, full, env>>

\* 1. pending_post.json on GitHub, with the sha read at the start; ok1 is not
\* looked at
ManWritePending ==
    /\ manual.pc = "sent"
    /\ \E net \in Net :
           LET new == ManualPublished(manual.draft[1], manual.msg_id[1],
                                      manual.text[1], clock + 1)
               w == write_github_file(gh, "pending", new, manual.sha, net)
           IN /\ gh' = w.gh
              /\ manual' = [manual EXCEPT !.pc = "w_pending", !.draft = Some(new),
                                           !.err1 = Some(w.err)]
    /\ clock' = clock + 1
    /\ UNCHANGED <<files, publish_targets, last, ret, app, auto, tg_posts,
                   editor, full, env>>

\* 2. ideas.json on GitHub: read
ManReadIdeas ==
    /\ manual.pc = "w_pending"
    /\ \E net \in Net :
           LET r == read_github_file(gh, "ideas", net) IN
           manual' = [manual EXCEPT !.pc = "r_ideas", !.buf = r.content, !.buf_sha = r.sha]
    /\ UNCHANGED <<files, clock, publish_targets, last, ret, gh, app, auto, tg_posts,
                   editor, full, env>>

\* 2. ideas.json on GitHub: mark by index and write
ManWriteIdeas ==
    /\ manual.pc = "r_ideas"
    /\ LET idx == manual.draft[1].idea_index IN
       IF manual.buf # None /\ idx < Len(manual.buf[1])
       THEN \E net \in Net :
                gh' = write_github_file(gh, "ideas", SetUsed(manual.buf[1], idx),
                                        manual.buf_sha, net).gh
       ELSE UNCHANGED gh
    /\ manual' = [manual EXCEPT !.pc = "w_ideas", !.buf = None, !.buf_sha = None]
    /\ UNCHANGED <<files, clock, publish_targets, last, ret, app, auto, tg_posts,
                   editor, full, env>>

\* 3. history.json on GitHub: read
ManReadHistory ==
    /\ manual.pc = "w_ideas"
    /\ \E net \in Net :
           LET r == read_github_file(gh, "history", net) IN
           manual' = [manual EXCEPT !.pc = "r_hist", !.buf = r.content, !.buf_sha = r.sha]
    /\ UNCHANGED <<files, clock, publish_targets, last, ret, gh, app, auto, tg_posts,
                   editor, full, env>>

\* 3. history.json on GitHub: append and write
ManWriteHistory ==
    /\ manual.pc = "r_hist"
    /\ \E net \in Net :
           LET hist_data == IF manual.buf # None THEN manual.buf[1] ELSE << >>
               entry == ManualHistoryEntry(manual.draft[1], manual.text[1],
                                           manual.msg_id[1], clock + 1)
           IN gh' = write_github_file(gh, "history", Append(hist_data, entry),
                                      manual.buf_sha, net).gh
    /\ clock' = clock + 1
    /\ manual' = [manual EXCEPT !.pc = "w_hist", !.buf = None, !.buf_sha = None]
    /\ UNCHANGED <<files, publish_targets, last, ret, app, auto, tg_posts,
                   editor, full, env>>

\* the same two updates on the files of the host
ManLocal ==
    /\ manual.pc = "w_hist"
    /\ LET draft == manual.draft[1]
           entry == ManualHistoryEntry(draft, manual.text[1], manual.msg_id[1], clock + 1)
       IN app' = [ideas |-> MarkUsedByIndex(app.ideas, draft.idea_index),
                  history |-> Append(app.history, entry)]
    /\ clock' = clock + 1
    /\ manual' = [manual EXCEPT !.pc = "done"]
    /\ UNCHANGED <<files, publish_targets, last, ret, gh, auto, tg_posts,
                   editor, full, env>>

\* ---- a second session of tab_auto editing the draft, step by step ----

\* an image uploaded by the operator, re-encoded
UploadedImages == {"u1"}

\* the rerun started by a button reads pending_post.json from GitHub; the
\* editing widgets exist only under a draft whose status is "pending"
EdRead ==
    /\ editor.pc = "idle"
    /\ \E net \in Net :
           LET r == read_github_file(gh, "pending", net) IN
           editor' = IF r.content = None THEN [editor EXCEPT !.pc = "done"]
                     ELSE IF r.content[1].status = "pending"
                     THEN [editor EXCEPT !.pc = "form", !.draft = r.content, !.sha = r.sha]
                     ELSE [editor EXCEPT !.pc = "done"]
    /\ UNCHANGED <<files, clock, publish_targets, last, ret, gh, app, auto, manual,
                   tg_posts, full, env>>

\* what a session does with the result of its one write: rerun, or show the
\* error and stop
AfterWrite(session, new, w) ==
    IF w.ok
    THEN [session EXCEPT !.pc = "saved", !.draft = Some(new), !.err = Some(w.err)]
    ELSE [session EXCEPT !.pc = "error", !.draft = Some(new), !.err = Some(w.err)]

\* "save text changes": the edited text is written with the sha read at the start
EdSaveText ==
    /\ editor.pc = "form"
    /\ \E draft_text \in EditedTexts, net \in Net :
           LET new == [editor.draft[1] EXCEPT !.post_text = draft_text]
               w == write_github_file(gh, "pending", new, editor.sha, net)
           IN /\ gh' = w.gh
              /\ editor' = AfterWrite(editor, new, w)
    /\ UNCHANGED <<files, clock, publish_targets, last, ret, app, auto, manual,
                   tg_posts, full, env>>

\* an uploaded image replaces the image of the draft, written with the sha read
\* at the start
EdReplaceImage ==
    /\ editor.pc = "form"
    /\ \E new_b64 \in UploadedImages, net \in Net :
           LET new == [editor.draft[1] EXCEPT !.image_base64 = new_b64]
               w == write_github_file(gh, "pending", new, editor.sha, net)
           IN /\ gh' = w.gh
              /\ editor' = AfterWrite(editor, new, w)
    /\ UNCHANGED <<files, clock, publish_targets, last, ret, app, auto, manual,
                   tg_posts, full, env>>

ConcNext ==
    \/ AutoLoad
    \/ AutoSend
    \/ AutoMark
    \/ AutoHistory
    \/ AutoSave
    \/ AutoCrash
    \/ ManRead
    \/ ManSend
    \/ ManWritePending
    \/ ManReadIdeas
    \/ ManWriteIdeas
    \/ ManReadHistory
    \/ ManWriteHistory
    \/ ManLocal

SpecConc == ConcInit /\ [][ConcNext]_vars

\* ------------------------------------------------------------------------
\* Specification: a manual draft publish and a second session that edits the
\* draft, both against the GitHub repository
\* ------------------------------------------------------------------------

RemoteNext ==
    \/ ManRead
    \/ ManSend
    \/ ManWritePending
    \/ ManReadIdeas
    \/ ManWriteIdeas
    \/ ManReadHistory
    \/ ManWriteHistory
    \/ ManLocal
    \/ EdRead
    \/ EdSaveText
    \/ EdReplaceImage

SpecRemote == ConcInit /\ [][RemoteNext]_vars


\* ------------------------------------------------------------------------
\* Specification: cmd_full step by step while the idea editor of app.py
\* works on the same ideas.json
\* ------------------------------------------------------------------------

\* variant: the idea list is loaded again before it is marked and saved
MarkSnapshot_reloads(snapshot, current, idx) == MarkUsedByIndex(current, idx)

\* ideas[idx]["used"] = True; save_ideas(ideas), ideas being the list loaded
\* at the start of the run; the list now in the file is not read
MarkSnapshot(snapshot, current, idx) == SetUsed(snapshot, idx)

FullInit ==
    /\ ideas \in FreshIdeaLists(MaxIdeas)
    /\ history = << >>
    /\ pending = None
    /\ clock = 0
    /\ publish_targets = <<"telegram">>
    /\ last = Report("start", 0, "start", << >>, NoFan)
    /\ ret = None
    /\ RemoteUnused
    /\ EnvDefault

\* load_ideas, get_next_idea and the early exit
FullLoad ==
    /\ full.pc = "idle"
    /\ LET result == get_next_idea(ideas) IN
       full' = IF result = None
               THEN [full EXCEPT !.pc = "done", !.started = Some(clock), !.exit = Some(0)]
               ELSE [full EXCEPT !.pc = "loaded", !.started = Some(clock),
                                 !.ideas = Some(ideas),
                                 !.idx = Some(result[1]), !.idea = Some(result[2])]
    /\ UNCHANGED <<files, clock, publish_targets, last, ret, gh, app, auto, manual,
                   tg_posts, editor, env>>

\* generate_post
FullText ==
    /\ full.pc = "loaded"
    /\ \E text \in {"raise"} \cup PostTexts :
           full' = IF text = "raise"
                   THEN [full EXCEPT !.pc = "done", !.exit = Some(1)]
                   ELSE [full EXCEPT !.pc = "text", !.post_text = Some(text)]
    /\ UNCHANGED <<files, clock, publish_targets, last, ret, gh, app, auto, manual,
                   tg_posts, editor, env>>

\* the image step
FullImage ==
    /\ full.pc = "text"
    /\ \E image \in ImageOutcomes(config), swap \in SwapOutcomes(config) :
           LET g == get_image(config, library, image, swap) IN
           /\ full' = IF g.exit # 0
                      THEN [full EXCEPT !.pc = "done", !.exit = Some(1)]
                      ELSE [full EXCEPT !.pc = "image"]
           /\ library' = g.library
    /\ UNCHANGED <<files, clock, publish_targets, last, ret, gh, app, auto, manual,
                   tg_posts, editor, config, call, retrying>>

\* publish_to_all and the exit when no platform accepted
FullSend ==
    /\ full.pc = "image"
    /\ \E out \in FanOutcomes :
           LET r == publish_to_all(publish_targets, out) IN
           /\ full' = IF PublishFailed(r.platform_ids)
                      THEN [full EXCEPT !.pc = "done", !.fan = Some(r), !.exit = Some(1)]
                      ELSE [full EXCEPT !.pc = "sent", !.fan = Some(r)]
           /\ tg_posts' = IF DictHas(r.platform_ids, "telegram")
                          THEN Append(tg_posts, "full")
                          ELSE tg_posts
    /\ UNCHANGED <<files, clock, publish_targets, last, ret, gh, app, auto, manual,
                   editor, env>>

\* the idea is marked in the list loaded at the start and that list is saved
FullMark ==
    /\ full.pc = "sent"
    /\ ideas' = MarkSnapshot(full.ideas[1], ideas, full.idx[1])
    /\ full' = [full EXCEPT !.pc = "marked"]
    /\ UNCHANGED <<history, pending, clock, publish_targets, last, ret, gh, app, auto,
                   manual, tg_posts, editor, env>>

\* add_history_entry
FullHistory ==
    /\ full.pc = "marked"
    /\ LET pids == full.fan[1].platform_ids
       IN history' = add_history_entry(history, full.idea[1], full.post_text[1],
                                       MessageId(pids), pids, clock + 1)
    /\ clock' = clock + 1
    /\ full' = [full EXCEPT !.pc = "done", !.exit = Some(0)]
    /\ UNCHANGED <<ideas, pending, publish_targets, last, ret, gh, app, auto, manual,
                   tg_posts, editor, env>>

FullNext ==
    \/ FullLoad
    \/ FullText
    \/ FullImage
    \/ FullSend
    \/ FullMark
    \/ FullHistory
    \/ UiAddIdea
    \/ UiResetIdea
    \/ UiDeleteIdea

SpecFull == FullInit /\ [][FullNext]_vars

\* ------------------------------------------------------------------------
\* Vocabulary of the properties
\* ------------------------------------------------------------------------

\* a record counts as unused when its flag is false or missing
Unused(item) == ("used" \notin DOMAIN item) \/ (item.used = FALSE)

\* the draft file holds a draft whose status is 'pending'
DraftIsPending == IF pending = None THEN FALSE ELSE pending[1].status = "pending"

\* the step is a run of cmd_publish / cmd_generate / cmd_full
PublishRuns == last'.cmd = "publish"

GenerateRuns == last'.cmd = "generate"

FullRuns == last'.cmd = "full"

\* the configured targets that name a platform, in configured order
PlatformTargets ==
    SelectSeq(ParseTargets(publish_targets), LAMBDA t : t \in Platforms)

\* the elements of a sequence
Range(seq) == {seq[i] : i \in DOMAIN seq}

\* 0-based position of the first unused record, -1 when there is none
FirstUnused(list) ==
    IF \E i \in DOMAIN list : Unused(list[i])
    THEN (CHOOSE i \in DOMAIN list :
              Unused(list[i]) /\ \A j \in 1..(i - 1) : ~Unused(list[j])) - 1
    ELSE -1

TerminalFields == {"status", "published_at", "message_id", "published_by", "platform_ids"}

DraftFields ==
    {"status", "created_at", "idea", "idea_index", "post_text", "image_prompt",
     "image_base64", "text_provider", "image_provider", "face_swap_provider",
     "published_at", "message_id", "published_by"}

\* ------------------------------------------------------------------------
\* Properties
\* ------------------------------------------------------------------------

\* C1: when cmd_publish runs and the draft file is absent or holds a draft
\* whose status is not 'pending', no adapter (and no provider) is called, the
\* draft, the idea list and the history are unchanged, and the exit code is 0.
C1_PublishIsNoOpUnlessPending ==
    [][ (PublishRuns /\ ~DraftIsPending)
            => /\ last'.sends = << >>
               /\ last'.calls = << >>
               /\ UNCHANGED files
               /\ last'.exit = 0 ]_vars

\* a no-op publish has run on a draft that an earlier publish had published
C1_Witness ==
    /\ last.cmd = "publish"
    /\ last.outcome = "skipped"
    /\ pending # None
    /\ pending[1].status = "published"
    /\ Len(history) = 1

\* C2: while the scheduled publish (cmd_publish) and a manual publish from the
\* UI overlap in any order on one pending draft, the draft reaches the
\* Telegram channel at most once.
C2_DraftPostedAtMostOnce == Len(tg_posts) <= 1

\* C3: when cmd_publish runs on a pending draft and no platform accepts the
\* post, the exit code is nonzero, the draft is still 'pending' with its
\* terminal fields unset, and neither the idea list nor the history changes.
C3_AllPlatformsFailedKeepsDraft ==
    [][ (PublishRuns /\ DraftIsPending /\ last'.accepted = << >>)
            => /\ last'.exit # 0
               /\ UNCHANGED files
               /\ pending'[1].status = "pending"
               /\ pending'[1].published_at = None
               /\ pending'[1].message_id = None
               /\ pending'[1].published_by = None ]_vars

\* cmd_publish has called adapters, none accepted, and the draft is pending
C3_Witness ==
    /\ last.cmd = "publish"
    /\ last.sends # << >>
    /\ last.accepted = << >>
    /\ last.exit = 1
    /\ DraftIsPending

\* C4: every fan-out (of cmd_publish on a pending draft, of cmd_full once its
\* image is ready) calls the adapter of every configured platform target
\* exactly once and in the configured order, whatever each adapter does.
C4_FanOutAttemptsEveryTarget ==
    [][ ((PublishRuns /\ DraftIsPending)
         \/ (FullRuns /\ last'.outcome \in {"failed", "published"}))
            => last'.sends = PlatformTargets ]_vars

\* the first adapter raised and the second one was still called and accepted
C4_Witness ==
    /\ last.cmd = "publish"
    /\ last.sends = <<"vk", "telegram">>
    /\ last.accepted = <<"telegram">>

\* C5: when cmd_publish runs on a pending draft and at least one platform
\* accepts, the exit code is 0 and the draft is rewritten in place: status
\* 'published', published_at and message_id set, published_by 'auto',
\* platform_ids with exactly one entry per platform that accepted, every other
\* field as it was.
C5_PublishedDraftFields ==
    [][ (PublishRuns /\ DraftIsPending /\ last'.accepted # << >>)
            => /\ last'.exit = 0
               /\ pending' # None
               /\ DOMAIN pending'[1] = DraftFields \cup {"platform_ids"}
               /\ pending'[1].status = "published"
               /\ pending'[1].published_at = Some(clock')
               /\ pending'[1].message_id # None
               /\ pending'[1].published_by = Some("auto")
               /\ Range(DictKeys(pending'[1].platform_ids)) = Range(last'.accepted)
               /\ Len(pending'[1].platform_ids) = Cardinality(Range(last'.accepted))
               /\ \A i \in DOMAIN pending'[1].platform_ids :
                      pending'[1].platform_ids[i].v = MsgId(pending'[1].platform_ids[i].k)
               /\ \A f \in DraftFields \ TerminalFields :
                      pending'[1][f] = pending[1][f] ]_vars

\* a publish in which one platform failed and another accepted
C5_Witness ==
    /\ last.cmd = "publish"
    /\ last.outcome = "published"
    /\ Len(last.accepted) = 1
    /\ Len(last.sends) = 2
    /\ pending # None
    /\ pending[1].status = "published"

\* the record the claim says is marked: the one at the draft's idea_index if
\* its text is the draft's idea, else the first record with that text
LocatedIdea(list, draft) ==
    IF draft.idea_index < Len(list) /\ list[draft.idea_index + 1].idea = draft.idea
    THEN draft.idea_index
    ELSE IF \E i \in DOMAIN list : list[i].idea = draft.idea
    THEN (CHOOSE i \in DOMAIN list :
              list[i].idea = draft.idea /\ \A j \in 1..(i - 1) : list[j].idea # draft.idea) - 1
    ELSE -1

\* C6: after a successful cmd_publish the record whose text equals the draft's
\* idea (found by idea_index, else by text equality) is used and no other
\* record has changed.
C6_MarkedIdeaIsTheDraftsIdea ==
    [][ (PublishRuns /\ last'.outcome = "published")
            => LET at == LocatedIdea(ideas, pending[1]) IN
               /\ Len(ideas') = Len(ideas)
               /\ \A i \in DOMAIN ideas :
                      IF i = at + 1
                      THEN ideas'[i].idea = ideas[i].idea /\ ~Unused(ideas'[i])
                      ELSE ideas'[i] = ideas[i] ]_vars

\* C7: every successful cmd_publish or cmd_full changes exactly one idea
\* record from unused to used and no other record; every other run of
\* cmd_generate, cmd_publish or cmd_full leaves the idea list as it was.
C7_UsedFlippedExactlyOnceAtPublish ==
    [][ IF (PublishRuns \/ FullRuns) /\ last'.outcome = "published"
        THEN /\ Len(ideas') = Len(ideas)
             /\ \E i \in DOMAIN ideas :
                    /\ Unused(ideas[i])
                    /\ ~Unused(ideas'[i])
                    /\ ideas'[i].idea = ideas[i].idea
                    /\ \A j \in DOMAIN ideas \ {i} : ideas'[j] = ideas[j]
        ELSE (PublishRuns \/ FullRuns \/ GenerateRuns) => ideas' = ideas ]_vars

\* C8: get_next_idea returns (index, text) of the first record in list order
\* whose used flag is false or missing, and None when there is no such record.
C8_NextIdeaIsFirstUnused ==
    last.cmd = "get_next_idea"
        => IF \A i \in DOMAIN ideas : ~Unused(ideas[i])
           THEN ret = None
           ELSE /\ Len(ret) = 2
                /\ ret[1] + 1 \in DOMAIN ideas
                /\ Unused(ideas[ret[1] + 1])
                /\ \A j \in 1..ret[1] : ~Unused(ideas[j])
                /\ ret[2] = ideas[ret[1] + 1].idea

\* get_next_idea skipped a used record and returned a record with no flag
C8_Witness ==
    /\ last.cmd = "get_next_idea"
    /\ Len(ideas) = 3
    /\ ret # None
    /\ ret[1] = 1
    /\ "used" \notin DOMAIN ideas[2]
    /\ Unused(ideas[3])

\* C9: a run that publishes (cmd_publish or cmd_full) appends exactly one
\* history entry, carrying the published idea and post text, after the
\* unchanged earlier entries; every other run leaves the history as it was.
C9_HistoryAppendOnly ==
    [][ IF (PublishRuns \/ FullRuns) /\ last'.outcome = "published"
        THEN /\ Len(history') = Len(history) + 1
             /\ SubSeq(history', 1, Len(history)) = history
             /\ IF PublishRuns
                THEN /\ history'[Len(history')].idea = pending[1].idea
                     /\ history'[Len(history')].post_text = pending[1].post_text
                ELSE /\ history'[Len(history')].idea = ideas[FirstUnused(ideas) + 1].idea
                     /\ history'[Len(history')].post_text \in PostTexts
        ELSE history' = history ]_vars

\* a second publish has appended after an earlier entry
C9_Witness ==
    /\ Len(history) = 2
    /\ last.outcome = "published"
    /\ history[1].date < history[2].date

\* C10: when cmd_generate completes while a pending draft exists, the stored
\* draft afterwards is the record of this run alone: exactly the draft fields,
\* status 'pending', terminal fields null, created now, for the next unused
\* idea; nothing of the earlier draft is kept.
C10_SecondDraftReplacesFirst ==
    [][ (GenerateRuns /\ last'.outcome \in {"draft_saved", "draft_overwritten"}
         /\ DraftIsPending)
            => /\ pending' # None
               /\ DOMAIN pending'[1] = DraftFields
               /\ pending'[1].status = "pending"
               /\ pending'[1].published_at = None
               /\ pending'[1].message_id = None
               /\ pending'[1].published_by = None
               /\ pending'[1].created_at = clock'
               /\ pending'[1].created_at # pending[1].created_at
               /\ pending'[1].idea_index = FirstUnused(ideas)
               /\ pending'[1].idea = ideas[FirstUnused(ideas) + 1].idea
               /\ pending'[1].post_text \in PostTexts ]_vars

\* cmd_generate has completed twice in a row, the second time over the first
\* draft
C10_Witness ==
    /\ last.cmd = "generate"
    /\ last.outcome = "draft_overwritten"
    /\ DraftIsPending
    /\ pending[1].created_at = 2
    /\ clock = 2

\* the number of times a call appears in a sequence of calls
CountOf(c, calls) == Cardinality({i \in DOMAIN calls : calls[i] = c})

\* C11: when any step of cmd_generate fails (text generation, image
\* generation, face swap, image encoding, or taking the library image), the
\* run ends with a nonzero exit code and the draft file is as it was.
C11_FailedGenerateLeavesNoDraft ==
    [][ (GenerateRuns /\ last'.raised # << >>)
            => /\ last'.exit # 0
               /\ pending' = pending ]_vars

\* C15: when cmd_generate or cmd_full finds no unused idea, it ends with exit
\* code 0, calls no text or image provider and no platform adapter, does not
\* move the image-library pointer and leaves the draft, the idea list and the
\* history as they were.
C15_NoIdeaIsCleanExit ==
    [][ ((GenerateRuns \/ FullRuns) /\ FirstUnused(ideas) = -1)
            => /\ last'.exit = 0
               /\ last'.calls = << >>
               /\ last'.sends = << >>
               /\ library' = library
               /\ UNCHANGED files ]_vars

\* cmd_generate has found an exhausted list while the library had an image
\* ready and a draft was pending
C15_Witness ==
    /\ last.cmd = "generate"
    /\ last.outcome = "no_ideas"
    /\ ideas # << >>
    /\ config.image_source = "library"
    /\ get_next_image(library).b64 # None
    /\ pending # None

\* C20: when cmd_generate builds a draft from a generated image with a
\* face-swap provider configured and an expert face available: if both the
\* face-swap provider and the image provider are gemini there is one image
\* call carrying the face and no face-swap call; for every other combination
\* there is exactly one face-swap call after the image call.
C20_FaceInlineOrOneSwap ==
    [][ (/\ GenerateRuns
         /\ last'.outcome \in {"draft_saved", "draft_overwritten"}
         /\ config.image_source = "generate"
         /\ config.face_swap_provider # ""
         /\ config.expert_face)
            => IF config.face_swap_provider = "gemini" /\ config.image_provider = "gemini"
               THEN /\ CountOf("image_inline", last'.calls) = 1
                    /\ CountOf("image", last'.calls) = 0
                    /\ CountOf("face_swap", last'.calls) = 0
               ELSE /\ CountOf("image", last'.calls) = 1
                    /\ CountOf("face_swap", last'.calls) = 1 ]_vars

\* C12: every remote write carries the sha read at the start of its cycle, and
\* once a write of a session was rejected for a stale sha (HTTP 409) that
\* session reports the failure and changes nothing more: a rejected draft
\* save or image replacement ends in the error state with the repository as
\* it was, and a manual publish whose draft-status write was rejected writes
\* neither the repository nor the local files again.
C12_RejectedWriteStopsTheOperation ==
    [][ /\ (editor' # editor /\ editor'.err = Some("HTTP 409"))
               => (editor'.pc = "error" /\ gh' = gh)
        /\ (manual' # manual /\ manual.err1 = Some("HTTP 409"))
               => (gh' = gh /\ app' = app) ]_vars

\* the idea list holds the record the publish in progress is about, used
AutoIdeaMarked ==
    /\ auto.draft[1].idea_index < Len(ideas)
    /\ ~Unused(ideas[auto.draft[1].idea_index + 1])

\* the history holds an entry for the idea of the publish in progress
AutoIdeaInHistory ==
    \E i \in DOMAIN history : history[i].idea = auto.draft[1].idea

\* cmd_publish was killed after a first write and before its last
CrashedBetweenWrites == auto.pc = "crashed" /\ auto.at[1] \in {"marked", "logged"}

C14_FullSavesItsSnapshot ==
    [][ (full.pc = "sent" /\ full'.pc = "marked")
            => ideas' = SetUsed(full.ideas[1], full.idx[1]) ]_vars

\* an idea added by the editor after cmd_full loaded the list is gone after
\* cmd_full saved
C14_Witness ==
    /\ full.pc = "marked"
    /\ last.cmd = "ui_add"
    /\ clock > full.started[1]
    /\ Len(ideas) = Len(full.ideas[1])

\* ------------------------------------------------------------------------
\* The platform adapters: one call of an adapter's send_post
\* ------------------------------------------------------------------------

\* A text is a sequence of tokens: one token per character, except that an
\* HTML tag and an HTML entity are one token each.
PlainChars == {"x", "y", " ", "\n", "&"}

Tags == {"<b>", "</b>"}

Whitespace == {" ", "\n"}

\* len(text): the number of characters of the string the tokens spell
PyLen(text) ==
    LET n(t) == Cardinality({i \in DOMAIN text : text[i] = t})
    IN  Len(text) + 2 * n("<b>") + 3 * n("</b>") + 3 * n("<br>") + 4 * n("&amp;")

\* str.strip(): leading and trailing whitespace removed
PyStrip(text) ==
    LET solid == {i \in DOMAIN text : text[i] \notin Whitespace}
    IN  IF solid = {} THEN << >>
        ELSE LET first == CHOOSE i \in solid : \A j \in solid : i <= j
                 final == CHOOSE i \in solid : \A j \in solid : j <= i
             IN  SubSeq(text, first, final)

\* <br> becomes a newline, every other tag is removed, entities are decoded,
\* the result is stripped
strip_html(text) ==
    LET breaks  == [i \in DOMAIN text |-> IF text[i] = "<br>" THEN "\n" ELSE text[i]]
        untagged == SelectSeq(breaks, LAMBDA t : t \notin Tags)
        decoded == [i \in DOMAIN untagged |->
                       IF untagged[i] = "&amp;" THEN "&" ELSE untagged[i]]
    IN  PyStrip(decoded)

\* Telegram's limit for a photo caption
_CAPTION_LIMIT == 1024

\* one HTTP request: the API method, and the title and text it carries
Request(api, title, text) == [api |-> api, title |-> title, text |-> text]

\* the requests of a list are made in order until one is answered with an
\* error, which raises: the requests made, and whether the last one raised
Perform(requests, answers) ==
    LET failed == {i \in DOMAIN requests : answers[i] # "ok"}
    IN  IF failed = {} THEN [requests |-> requests, raised |-> FALSE]
        ELSE LET stop == CHOOSE i \in failed : \A j \in failed : i <= j
             IN  [requests |-> SubSeq(requests, 1, stop), raised |-> TRUE]

\* what a call of send_post did: the HTTP requests it made, whether it
\* raised, and the request whose answer it returned
Raised(requests) == [requests |-> requests, raised |-> TRUE, result |-> None]

Returned(requests) ==
    [requests |-> requests, raised |-> FALSE,
     result |-> Some(requests[Len(requests)].api)]

Outcome(done) ==
    IF done.raised THEN Raised(done.requests) ELSE Returned(done.requests)

\* post_telegram._send_photo: the caption is sent only when it is not empty
_send_photo(caption) ==
    Request("sendPhoto", None,
            IF caption = None \/ caption[1] = << >> THEN None ELSE caption)

_send_message(text) == Request("sendMessage", None, Some(text))

\* send_post with a caption of exactly the limit treated as too long
telegram_send_post_strictLimit(c) ==
    IF PyLen(c.caption) < _CAPTION_LIMIT
    THEN Outcome(Perform(<<_send_photo(Some(c.caption))>>, c.out))
    ELSE Outcome(Perform(<<_send_photo(None), _send_message(c.caption)>>, c.out))

\* post_telegram.send_post
telegram_send_post(c) ==
    IF PyLen(c.caption) <= _CAPTION_LIMIT
    THEN Outcome(Perform(<<_send_photo(Some(c.caption))>>, c.out))
    ELSE Outcome(Perform(<<_send_photo(None), _send_message(c.caption)>>, c.out))

\* the text with the footer appended after an empty line, when there is a
\* footer: the footer_text argument if one is given, else the configured one
WithFooter(plain_text, footer_text, configured) ==
    LET footer == IF footer_text # None THEN footer_text[1] ELSE configured
    IN  IF footer # << >> THEN plain_text \o <<"\n", "\n">> \o footer
        ELSE plain_text

\* post_vk._upload_photo_wall and _upload_photo_messages: get the upload
\* server, upload the file, save the photo
_upload_photo_wall ==
    <<Request("photos.getWallUploadServer", None, None),
      Request("upload", None, None),
      Request("photos.saveWallPhoto", None, None)>>

_upload_photo_messages ==
    <<Request("photos.getMessagesUploadServer", None, None),
      Request("upload", None, None),
      Request("photos.saveMessagesPhoto", None, None)>>

\* the loop of post_vk.send_post over the two upload methods: the second is
\* tried when the first raised, whatever it raised
VkUpload(wall, messages) ==
    IF ~wall.raised
    THEN [requests |-> wall.requests, attachment |-> Some("wall")]
    ELSE [requests |-> wall.requests \o messages.requests,
          attachment |-> IF messages.raised THEN None ELSE Some("messages")]

\* post_vk.send_post; answers 1..3 are those of the wall upload, 4..6 those
\* of the messages upload, 7 is that of wall.post
vk_send_post(c) ==
    IF c.token = "" THEN Raised(<< >>)
    ELSE IF c.target = "" THEN Raised(<< >>)
    ELSE LET plain_text == WithFooter(strip_html(c.caption), c.footer_text, c.footer)
             up == VkUpload(Perform(_upload_photo_wall, SubSeq(c.out, 1, 3)),
                            Perform(_upload_photo_messages, SubSeq(c.out, 4, 6)))
             post == Perform(<<Request("wall.post", None, Some(plain_text))>>,
                             SubSeq(c.out, 7, 7))
         IN  IF up.attachment = None THEN Raised(up.requests)
             ELSE Outcome([requests |-> up.requests \o post.requests,
                           raised |-> post.raised])

\* post_max.send_post: the image is uploaded, then the message is sent
max_send_post(c) ==
    IF c.token = "" THEN Raised(<< >>)
    ELSE IF c.target = "" THEN Raised(<< >>)
    ELSE LET plain_text == WithFooter(strip_html(c.caption), c.footer_text, c.footer)
         IN  Outcome(Perform(<<Request("uploads", None, None),
                               Request("messages", None, Some(plain_text))>>, c.out))

\* post_pinterest._strip_html: the same conversion as utils.strip_html
_strip_html(text) == strip_html(text)

\* text[:n]
Take(text, n) == SubSeq(text, 1, IF Len(text) < n THEN Len(text) ELSE n)

\* the split made at the last newline instead of the first
SplitFirstLine_atLastNewline(text) ==
    LET newlines == {i \in DOMAIN text : text[i] = "\n"}
    IN  IF newlines = {} THEN <<text>>
        ELSE LET k == CHOOSE i \in newlines : \A j \in newlines : j <= i
             IN  <<SubSeq(text, 1, k - 1), SubSeq(text, k + 1, Len(text))>>

\* text.split("\n", 1): the part before the first newline and, when there is
\* a newline, the part after it
SplitFirstLine(text) ==
    LET newlines == {i \in DOMAIN text : text[i] = "\n"}
    IN  IF newlines = {} THEN <<text>>
        ELSE LET k == CHOOSE i \in newlines : \A j \in newlines : i <= j
             IN  <<SubSeq(text, 1, k - 1), SubSeq(text, k + 1, Len(text))>>

TitleLimit == 100

DescriptionLimit == 500

\* post_pinterest.send_post: one request creates the pin
pinterest_send_post(c) ==
    IF c.token = "" THEN Raised(<< >>)
    ELSE IF c.target = "" THEN Raised(<< >>)
    ELSE LET lines == SplitFirstLine(_strip_html(c.caption))
             title == Take(lines[1], TitleLimit)
             description == IF Len(lines) > 1 THEN Take(lines[2], DescriptionLimit)
                            ELSE << >>
         IN  Outcome(Perform(<<Request("pins", Some(title), Some(description))>>,
                             c.out))

\* ------------------------------------------------------------------------
\* Specification: one direct call of one adapter's send_post
\* ------------------------------------------------------------------------

Xs(n) == [i \in 1..n |-> "x"]

\* captions around Telegram's limit, with and without markup
LongCaptions ==
    {<< >>, <<"<b>", "x", "</b>">>,
     Xs(_CAPTION_LIMIT - 1), Xs(_CAPTION_LIMIT), Xs(_CAPTION_LIMIT + 1),
     Xs(_CAPTION_LIMIT - 7) \o <<"<b>", "</b>">>,
     Xs(_CAPTION_LIMIT - 6) \o <<"<b>", "</b>">>}

\* captions with markup, entities, line breaks and outer whitespace
MarkedCaptions ==
    {<< >>, <<"x">>,
     <<" ", "<b>", "x", "</b>", "<br>", "y", "&amp;", "\n">>,
     <<"x", "\n", "y", "\n", "x">>}

Footers == {<< >>, <<"y", "x">>}

FooterArgs == {None, Some(<< >>), Some(<<"x", "y">>)}

Credentials == {"", "secret"}

\* sequences of n answers of which at most one is an error
AnswerSeqs(n, errors) ==
    {a \in [1..n -> {"ok"} \cup errors] :
        Cardinality({i \in 1..n : a[i] # "ok"}) <= 1}

\* the answers the platform gives: no request succeeds without credentials
Answers(token, target, given) ==
    IF token = "" \/ target = ""
    THEN {[i \in DOMAIN a |-> "error"] : a \in given}
    ELSE given

VkAnswers ==
    {w \o m \o p : w \in AnswerSeqs(3, {"scope", "error"}),
                   m \in AnswerSeqs(3, {"scope", "error"}),
                   p \in AnswerSeqs(1, {"error"})}

Calls(platform, captions, footer_args, footers, answers) ==
    {[platform |-> platform, caption |-> caption, token |-> token,
      target |-> target, footer_text |-> footer_text, footer |-> footer,
      out |-> out] :
        caption \in captions, token \in Credentials, target \in Credentials,
        footer_text \in footer_args, footer \in footers,
        out \in answers}

\* a call with its answers, as the platform can give them
Answerable(c, given) == c.out \in Answers(c.token, c.target, given)

TelegramCalls ==
    {c \in Calls("telegram", LongCaptions, {None}, Footers,
                 [1..2 -> {"ok", "error"}]) :
        Answerable(c, [1..2 -> {"ok", "error"}])}

VkCalls ==
    {c \in Calls("vk", MarkedCaptions, FooterArgs, Footers, VkAnswers
                       \cup {[i \in 1..7 |-> "error"]}) :
        Answerable(c, VkAnswers)}

MaxCalls ==
    {c \in Calls("max", MarkedCaptions, FooterArgs, Footers,
                 [1..2 -> {"ok", "error"}]) :
        Answerable(c, [1..2 -> {"ok", "error"}])}

\* captions whose first line and whose remainder reach past Pinterest's limits
PinCaptions ==
    MarkedCaptions \cup
    {Xs(TitleLimit), Xs(TitleLimit + 1),
     <<"y", "\n">> \o Xs(DescriptionLimit),
     Xs(TitleLimit + 1) \o <<"<br>">> \o Xs(DescriptionLimit + 1) \o <<"\n", "y">>}

PinterestCalls ==
    {c \in Calls("pinterest", PinCaptions, {None}, {<< >>},
                 [1..1 -> {"ok", "error"}]) :
        Answerable(c, [1..1 -> {"ok", "error"}])}

SendInit ==
    /\ ideas = << >>
    /\ history = << >>
    /\ pending = None
    /\ clock = 0
    /\ publish_targets = << >>
    /\ last = Report("start", 0, "start", << >>, NoFan)
    /\ ret = None
    /\ RemoteUnused
    /\ config = DefaultConfig
    /\ library = EmptyLibrary
    /\ call \in TelegramCalls \cup VkCalls \cup MaxCalls \cup PinterestCalls
    /\ retrying = NotRetrying

\* the report of a call of send_post
SendReport(platform, done) ==
    Report(platform, 0, IF done.raised THEN "raised" ELSE "returned", << >>, NoFan)

\* the call is made once and what it did is kept
CallTelegram ==
    /\ last.cmd = "start"
    /\ call.platform = "telegram"
    /\ ret' = telegram_send_post(call)
    /\ last' = SendReport("telegram", ret')
    /\ UNCHANGED <<files, clock, publish_targets, remote, env>>

CallVk ==
    /\ last.cmd = "start"
    /\ call.platform = "vk"
    /\ ret' = vk_send_post(call)
    /\ last' = SendReport("vk", ret')
    /\ UNCHANGED <<files, clock, publish_targets, remote, env>>

CallMax ==
    /\ last.cmd = "start"
    /\ call.platform = "max"
    /\ ret' = max_send_post(call)
    /\ last' = SendReport("max", ret')
    /\ UNCHANGED <<files, clock, publish_targets, remote, env>>

CallPinterest ==
    /\ last.cmd = "start"
    /\ call.platform = "pinterest"
    /\ ret' = pinterest_send_post(call)
    /\ last' = SendReport("pinterest", ret')
    /\ UNCHANGED <<files, clock, publish_targets, remote, env>>

SendNext ==
    \/ CallTelegram
    \/ CallVk
    \/ CallMax
    \/ CallPinterest

SpecSend == SendInit /\ [][SendNext]_vars

\* ------------------------------------------------------------------------
\* Claims about the platform adapters
\* ------------------------------------------------------------------------

\* C16: for a caption longer than 1024 characters Telegram's send_post makes
\* sendPhoto without a caption and then sendMessage with the full text, the
\* second only when the first succeeded, and returns only when both
\* succeeded; for a caption of at most 1024 characters it makes exactly one
\* sendPhoto request, which carries the caption.
C16_TelegramSplitsLongCaptions ==
    (last.cmd = "telegram") =>
        IF PyLen(call.caption) > 1024
        THEN /\ ret.requests[1] = Request("sendPhoto", None, None)
             /\ IF call.out[1] = "ok"
                THEN /\ Len(ret.requests) = 2
                     /\ ret.requests[2] =
                            Request("sendMessage", None, Some(call.caption))
                ELSE Len(ret.requests) = 1
             /\ ~ret.raised <=> (call.out[1] = "ok" /\ call.out[2] = "ok")
             /\ ~ret.raised => ret.result = Some("sendMessage")
        ELSE /\ ret.requests =
                    <<Request("sendPhoto", None,
                              IF call.caption = << >> THEN None
                              ELSE Some(call.caption))>>
             /\ ~ret.raised <=> call.out[1] = "ok"

\* a caption of 1025 characters, markup included, went out as a photo and a
\* message
C16_Witness ==
    /\ last.cmd = "telegram"
    /\ PyLen(call.caption) = 1025
    /\ Len(call.caption) < 1025
    /\ Len(ret.requests) = 2
    /\ ~ret.raised

\* the requests of a call that went to the API method
Made(api) == {i \in DOMAIN ret.requests : ret.requests[i].api = api}

\* the answers of the wall upload and of the messages upload
WallAnswers == SubSeq(call.out, 1, 3)

MessagesAnswers == SubSeq(call.out, 4, 6)

AllOk(answers) == \A i \in DOMAIN answers : answers[i] = "ok"

\* C17: VK's send_post tries the wall upload first and goes on to the
\* messages upload only when the wall upload failed with an
\* authorization-scope error; it never tries the messages upload after a
\* successful wall upload, makes wall.post only with an attachment, and
\* raises without wall.post when both uploads fail.
C17_VkFallsBackOnlyOnScopeError ==
    (last.cmd = "vk" /\ call.token # "" /\ call.target # "") =>
        /\ ret.requests[1].api = "photos.getWallUploadServer"
        /\ Made("photos.getMessagesUploadServer") # {} =>
               \E i \in 1..3 : WallAnswers[i] = "scope"
        /\ AllOk(WallAnswers) => Made("photos.getMessagesUploadServer") = {}
        /\ Made("wall.post") # {} => (AllOk(WallAnswers) \/ AllOk(MessagesAnswers))
        /\ (~AllOk(WallAnswers) /\ ~AllOk(MessagesAnswers)) =>
               (ret.raised /\ Made("wall.post") = {})

\* the adapters called directly
Adapters == {"telegram", "vk", "max", "pinterest"}

\* the text the post went out with: that of the last request of a call that
\* returned
SentText ==
    LET sent == ret.requests[Len(ret.requests)]
    IN  IF sent.text = None THEN << >> ELSE sent.text[1]

\* the body of the post as the platform takes it: HTML for Telegram, plain
\* text for the others
Body == IF call.platform = "telegram" THEN call.caption ELSE strip_html(call.caption)

\* the footer configured for the call
ConfiguredFooter ==
    IF call.footer_text # None THEN call.footer_text[1] ELSE call.footer

\* C18: every adapter sends the body followed by the configured footer when
\* a footer is configured, and the body alone when none is configured.
C18_EveryAdapterAppendsItsFooter ==
    (last.cmd \in Adapters /\ ~ret.raised) =>
        IF ConfiguredFooter # << >>
        THEN SentText = Body \o <<"\n", "\n">> \o ConfiguredFooter
        ELSE IF call.platform = "pinterest"
        THEN SentText = (IF Len(SplitFirstLine(Body)) > 1
                         THEN Take(SplitFirstLine(Body)[2], DescriptionLimit)
                         ELSE << >>)
        ELSE SentText = Body

\* C19: when the token or the target id of a call is empty, the adapter
\* raises without having made any HTTP request.
C19_MissingCredentialsRaiseBeforeAnyRequest ==
    (last.cmd \in Adapters /\ (call.token = "" \/ call.target = "")) =>
        (ret.raised /\ ret.requests = << >>)

\* ------------------------------------------------------------------------
\* generate_text._parse_response
\* ------------------------------------------------------------------------

\* A reply is a sequence of tokens as above; each marker is one token, and so
\* is each replacement field of a template.
POST == "POST:"

IMAGE_PROMPT == "IMAGE_PROMPT:"

DEFAULT_IMAGE_PROMPT_TEMPLATE == <<"x", "{idea}", "y">>

\* marker in text
Contains(text, marker) == \E i \in DOMAIN text : text[i] = marker

\* text.split(marker): the pieces between the occurrences of the marker
RECURSIVE PySplit(_, _)
PySplit(text, marker) ==
    LET at == {i \in DOMAIN text : text[i] = marker}
    IN  IF at = {} THEN <<text>>
        ELSE LET k == CHOOSE i \in at : \A j \in at : i <= j
             IN  <<SubSeq(text, 1, k - 1)>>
                     \o PySplit(SubSeq(text, k + 1, Len(text)), marker)

\* text.replace(marker, "")
PyRemove(text, marker) == SelectSeq(text, LAMBDA t : t # marker)

\* the replacement fields of a template
Fields == {"{idea}", "{topic}"}

\* template.format(idea=idea): every {idea} becomes the idea; a field of
\* another name raises KeyError
RECURSIVE PyFormat(_, _)
PyFormat(template, idea) ==
    IF template = << >> THEN << >>
    ELSE (IF Head(template) = "{idea}" THEN idea ELSE <<Head(template)>>)
             \o PyFormat(Tail(template), idea)

FormatRaises(template) ==
    \E i \in DOMAIN template : template[i] \in Fields \ {"{idea}"}

\* generate_text._parse_response
_parse_response(response_text, idea, image_prompt_template) ==
    IF Contains(response_text, POST) /\ Contains(response_text, IMAGE_PROMPT)
    THEN LET parts == PySplit(response_text, IMAGE_PROMPT)
         IN  [raised |-> FALSE,
              post_text |-> PyStrip(PyRemove(parts[1], POST)),
              image_prompt |-> PyStrip(parts[2])]
    ELSE LET template == IF image_prompt_template # None
                            /\ image_prompt_template[1] # << >>
                         THEN image_prompt_template[1]
                         ELSE DEFAULT_IMAGE_PROMPT_TEMPLATE
         IN  IF FormatRaises(template)
             THEN [raised |-> TRUE, post_text |-> << >>, image_prompt |-> << >>]
             ELSE [raised |-> FALSE,
                   post_text |-> PyStrip(response_text),
                   image_prompt |-> PyFormat(template, idea)]

\* ------------------------------------------------------------------------
\* Specification: one direct call of _parse_response
\* ------------------------------------------------------------------------

MaxReply == 4

ReplyTokens == {POST, IMAGE_PROMPT, "x", " "}

\* the replies of at most n tokens
Replies(n) == UNION {[1..k -> ReplyTokens] : k \in 0..n}

ParseIdeas == {<<"y">>, <<"{idea}">>}

Templates == {None, Some(<< >>), Some(<<"{idea}", "x">>), Some(<<"{topic}">>)}

ParseCalls ==
    {[fn |-> "_parse_response", response_text |-> r, idea |-> i,
      image_prompt_template |-> t] :
        r \in Replies(MaxReply), i \in ParseIdeas, t \in Templates}

ParseInit ==
    /\ ideas = << >>
    /\ history = << >>
    /\ pending = None
    /\ clock = 0
    /\ publish_targets = << >>
    /\ last = Report("start", 0, "start", << >>, NoFan)
    /\ ret = None
    /\ RemoteUnused
    /\ config = DefaultConfig
    /\ library = EmptyLibrary
    /\ call \in ParseCalls
    /\ retrying = NotRetrying

CallParseResponse ==
    /\ last.cmd = "start"
    /\ ret' = _parse_response(call.response_text, call.idea,
                              call.image_prompt_template)
    /\ last' = Report("_parse_response", 0,
                      IF ret'.raised THEN "raised" ELSE "returned", << >>, NoFan)
    /\ UNCHANGED <<files, clock, publish_targets, remote, env>>

ParseNext == CallParseResponse

SpecParse == ParseInit /\ [][ParseNext]_vars

\* the first place of a marker in the reply
FirstAt(marker) ==
    CHOOSE i \in DOMAIN call.response_text :
        /\ call.response_text[i] = marker
        /\ \A j \in 1..(i - 1) : call.response_text[j] # marker

\* the template the call is configured with
ConfiguredTemplate ==
    IF call.image_prompt_template \in {None, Some(<< >>)}
    THEN DEFAULT_IMAGE_PROMPT_TEMPLATE
    ELSE call.image_prompt_template[1]

\* C21: when the reply has both markers, post_text is the trimmed text
\* between POST: and IMAGE_PROMPT: and image_prompt is the trimmed text after
\* IMAGE_PROMPT:; otherwise post_text is the whole trimmed reply and
\* image_prompt is the configured template with {idea} replaced by the idea.
C21_ParseResponseByMarkers ==
    (last.cmd = "_parse_response") =>
        IF Contains(call.response_text, POST)
           /\ Contains(call.response_text, IMAGE_PROMPT)
        THEN /\ ~ret.raised
             /\ ret.post_text =
                    PyStrip(SubSeq(call.response_text, FirstAt(POST) + 1,
                                   FirstAt(IMAGE_PROMPT) - 1))
             /\ ret.image_prompt =
                    PyStrip(SubSeq(call.response_text, FirstAt(IMAGE_PROMPT) + 1,
                                   Len(call.response_text)))
        ELSE /\ ~ret.raised
             /\ ret.post_text = PyStrip(call.response_text)
             /\ ret.image_prompt = PyFormat(ConfiguredTemplate, call.idea)

\* the places of the newlines of a text, and the first of them
NewlinesOf(text) == {i \in DOMAIN text : text[i] = "\n"}

FirstNewlineOf(text) ==
    CHOOSE i \in NewlinesOf(text) : \A j \in NewlinesOf(text) : i <= j

\* the first n tokens of text[from..to]
Clip(text, from, to, n) ==
    [i \in 1..(IF to - from + 1 < n THEN to - from + 1 ELSE n) |-> text[from + i - 1]]

\* C22: Pinterest's send_post sends as title the first line of the stripped
\* text cut to 100 characters, and as description what follows the first
\* newline cut to 500 characters, empty when there is no newline.
C22_PinterestTitleAndDescription ==
    (last.cmd = "pinterest" /\ ret.requests # << >>) =>
        LET pin == ret.requests[1]
            stripped == strip_html(call.caption)
            first == FirstNewlineOf(stripped)
        IN  /\ Len(ret.requests) = 1
            /\ pin.api = "pins"
            /\ IF NewlinesOf(stripped) = {}
               THEN /\ pin.title = Some(Clip(stripped, 1, Len(stripped), 100))
                    /\ pin.text = Some(<< >>)
               ELSE /\ pin.title = Some(Clip(stripped, 1, first - 1, 100))
                    /\ pin.text = Some(Clip(stripped, first + 1, Len(stripped), 500))

\* a pin went out whose first line and whose remainder were both cut
C22_Witness ==
    /\ last.cmd = "pinterest"
    /\ ~ret.raised
    /\ LET stripped == strip_html(call.caption)
           first == FirstNewlineOf(stripped)
       IN  /\ Cardinality(NewlinesOf(stripped)) > 1
           /\ first - 1 > 100
           /\ Len(stripped) - first > 500
    /\ Len(ret.requests[1].title[1]) = 100
    /\ Len(ret.requests[1].text[1]) = 500

\* ------------------------------------------------------------------------
\* utils.retry, one pass of its loop per step
\* ------------------------------------------------------------------------

MaxAttempts == 3

\* what the i-th call of fn returns, and what it raises
Value(i) == <<"value", i>>

Exc(i) == <<"exception", i>>

\* raise None
TypeError == <<"TypeError">>

RetryCalls ==
    {[fn |-> "retry", max_attempts |-> n, delay |-> d, backoff |-> b, out |-> o] :
        n \in 0..MaxAttempts, d \in 1..2, b \in 1..3,
        o \in [1..MaxAttempts -> {"ok", "raise"}]}

\* last_exc = None; current_delay = delay; the loop is about to start
RetryStart(c) ==
    [pc |-> "loop", attempt |-> 1, current_delay |-> c.delay, last_exc |-> None,
     calls |-> 0, sleeps |-> << >>, result |-> None, raised |-> None]

RetryInit ==
    /\ ideas = << >>
    /\ history = << >>
    /\ pending = None
    /\ clock = 0
    /\ publish_targets = << >>
    /\ last = Report("start", 0, "start", << >>, NoFan)
    /\ ret = None
    /\ RemoteUnused
    /\ config = DefaultConfig
    /\ library = EmptyLibrary
    /\ call \in RetryCalls
    /\ retrying = RetryStart(call)

\* one pass of the loop in which fn returns: retry returns its value
RetryReturn ==
    /\ retrying.pc = "loop"
    /\ retrying.attempt <= call.max_attempts
    /\ call.out[retrying.attempt] = "ok"
    /\ retrying' = [retrying EXCEPT !.pc = "returned",
                                    !.calls = @ + 1,
                                    !.result = Some(Value(retrying.attempt))]
    /\ last' = Report("retry", 0, "returned", << >>, NoFan)
    /\ UNCHANGED <<files, clock, publish_targets, ret, remote, config, library, call>>

\* the delay grown by adding the factor instead of multiplying by it
NextDelay_adds(current_delay, backoff) == current_delay + backoff

\* current_delay *= backoff
NextDelay(current_delay, backoff) == current_delay * backoff

\* one pass of the loop in which fn raises: the exception is kept, and
\* before every attempt but the last retry sleeps and multiplies the delay
RetryFail ==
    /\ retrying.pc = "loop"
    /\ retrying.attempt <= call.max_attempts
    /\ call.out[retrying.attempt] = "raise"
    /\ retrying' =
           IF retrying.attempt < call.max_attempts
           THEN [retrying EXCEPT !.attempt = @ + 1,
                                 !.calls = @ + 1,
                                 !.last_exc = Some(Exc(retrying.attempt)),
                                 !.sleeps = Append(@, retrying.current_delay),
                                 !.current_delay = NextDelay(@, call.backoff)]
           ELSE [retrying EXCEPT !.attempt = @ + 1,
                                 !.calls = @ + 1,
                                 !.last_exc = Some(Exc(retrying.attempt))]
    /\ last' = Report("retry", 0, "attempt_failed", << >>, NoFan)
    /\ UNCHANGED <<files, clock, publish_targets, ret, remote, config, library, call>>

\* raise last_exc after the loop; raising None is a TypeError
RetryRaise ==
    /\ retrying.pc = "loop"
    /\ retrying.attempt > call.max_attempts
    /\ retrying' = [retrying EXCEPT !.pc = "raised",
                                    !.raised = IF retrying.last_exc = None
                                               THEN Some(TypeError)
                                               ELSE retrying.last_exc]
    /\ last' = Report("retry", 0, "raised", << >>, NoFan)
    /\ UNCHANGED <<files, clock, publish_targets, ret, remote, config, library, call>>

RetryNext ==
    \/ RetryReturn
    \/ RetryFail
    \/ RetryRaise

SpecRetry == RetryInit /\ [][RetryNext]_vars

\* the loop is not held up between its passes
SpecRetryFair == SpecRetry /\ WF_vars(RetryNext)

\* the attempts of the call that fn answers by raising
AllFail == \A i \in 1..call.max_attempts : call.out[i] = "raise"

\* the first attempt fn answers by returning
FirstOk ==
    CHOOSE i \in 1..call.max_attempts :
        call.out[i] = "ok" /\ \A j \in 1..(i - 1) : call.out[j] = "raise"

\* d, d * b, d * b * b, ...: n delays
RECURSIVE Delays(_, _, _)
Delays(d, b, n) == IF n <= 0 THEN << >> ELSE <<d>> \o Delays(d * b, b, n - 1)

\* what the claim says of a call of retry, in every state of the call
RetryContract ==
    /\ retrying.calls <= call.max_attempts
    /\ retrying.pc = "returned" =>
           /\ retrying.result = Some(Value(FirstOk))
           /\ retrying.calls = FirstOk
           /\ retrying.sleeps = Delays(call.delay, call.backoff, FirstOk - 1)
    /\ retrying.pc = "raised" =>
           /\ AllFail
           /\ retrying.raised = Some(Exc(call.max_attempts))
           /\ retrying.sleeps =
                  Delays(call.delay, call.backoff, call.max_attempts - 1)

RetryEnded == retrying.pc \in {"returned", "raised"}

\* C23 as stated: for any max_attempts, retry calls fn at most max_attempts
\* times; it returns the value of the first call that succeeds and calls fn
\* no more; when every attempt fails it raises the last exception fn raised,
\* having slept max_attempts-1 times, each delay the one before multiplied
\* by backoff; and it always ends.
C23_RetryContractForAnyAttempts == []RetryContract /\ <>RetryEnded

\* C23: all of that for max_attempts of at least 1; with max_attempts of 0
\* fn is never called, retry does not sleep and raises TypeError (raise
\* None), and it ends as well.
C23_RetryContract ==
    /\ [](IF call.max_attempts >= 1 THEN RetryContract
          ELSE /\ retrying.calls = 0
               /\ retrying.sleeps = << >>
               /\ retrying.pc # "returned"
               /\ retrying.pc = "raised" => retrying.raised = Some(TypeError))
    /\ <>RetryEnded

\* three attempts have failed with two growing sleeps between them, and the
\* third exception was raised
C23_Witness ==
    /\ retrying.pc = "raised"
    /\ call.max_attempts = 3
    /\ call.backoff = 3
    /\ retrying.calls = 3
    /\ retrying.sleeps = <<call.delay, 3 * call.delay>>
    /\ retrying.raised = Some(Exc(3))

\* ------------------------------------------------------------------------
\* Specification: the image library under its own operations
\* ------------------------------------------------------------------------

MaxImages == 3

\* the highest index add_image may hand out before the library is left alone
MaxIndex == MaxImages + 1

\* max((img["index"] for img in images), default=0)
MaxOf(images) ==
    IF images = << >> THEN 0
    ELSE CHOOSE x \in {images[i] : i \in DOMAIN images} :
             \A i \in DOMAIN images : images[i] <= x

\* add_image: the image gets the index after the highest one, its file is
\* written and its entry appended; the pointer is left alone
add_image(lib) ==
    LET new_idx == MaxOf(lib.images) + 1
    IN  [lib EXCEPT !.images = Append(@, new_idx),
                    !.stored = @ \cup {new_idx}]

\* remove_image leaving the pointer where it was
remove_image_keepsPointer(lib, idx) ==
    [lib EXCEPT !.images = SelectSeq(@, LAMBDA x : x # idx),
                !.stored = @ \ {idx}]

\* remove_image: the entry and the file are removed; the pointer goes back
\* to 0 when it is past the end of the shorter list
remove_image(lib, idx) ==
    LET new_images == SelectSeq(lib.images, LAMBDA x : x # idx)
    IN  IF Len(new_images) = Len(lib.images) THEN lib
        ELSE [images |-> new_images,
              next_index |-> IF new_images # << >>
                             THEN (IF lib.next_index >= Len(new_images) THEN 0
                                   ELSE lib.next_index)
                             ELSE 0,
              stored |-> lib.stored \ {idx}]

\* reset_pointer
reset_pointer(lib) == [lib EXCEPT !.next_index = 0]

\* What the last operation was and what it returned, and the images served
\* by the get_next_image + advance_pointer rounds made one after another
\* since another operation was last made, with the pointer before the first.
Did(op, arg, value, served, start) ==
    [op |-> op, arg |-> arg, value |-> value, served |-> served, start |-> start]

LibInit ==
    /\ ideas = << >>
    /\ history = << >>
    /\ pending = None
    /\ clock = 0
    /\ publish_targets = << >>
    /\ last = Report("start", 0, "start", << >>, NoFan)
    /\ ret = Did("start", None, None, << >>, 0)
    /\ RemoteUnused
    /\ EnvDefault

LibDone(op, arg, value, served, start) ==
    /\ ret' = Did(op, arg, value, served, start)
    /\ last' = Report(op, 0, "returned", << >>, NoFan)
    /\ UNCHANGED <<files, clock, publish_targets, remote, config, call, retrying>>

LibAddImage ==
    /\ lib_count(library) < MaxImages
    /\ MaxOf(library.images) < MaxIndex
    /\ library' = add_image(library)
    /\ LibDone("add_image", None, Some(MaxOf(library.images) + 1),
               << >>, library'.next_index)

LibRemoveImage ==
    \E idx \in 1..MaxIndex :
        /\ library' = remove_image(library, idx)
        /\ LibDone("remove_image", Some(idx), Some(library' # library),
                   << >>, library'.next_index)

LibAdvancePointer ==
    /\ library' = advance_pointer(library)
    /\ LibDone("advance_pointer", None, None, << >>, library'.next_index)

LibResetPointer ==
    /\ library' = reset_pointer(library)
    /\ LibDone("reset_pointer", None, None, << >>, library'.next_index)

LibGetNextImage ==
    /\ library' = library
    /\ LibDone("get_next_image", None, Some(get_next_image(library)),
               << >>, library.next_index)

\* get_next_image, then advance_pointer, as cmd_generate and cmd_full use
\* the library
LibRound ==
    /\ library.images # << >>
    /\ library' = advance_pointer(library)
    /\ IF Len(ret.served) < lib_count(library)
       THEN LibDone("round", None, Some(get_next_image(library)),
                    Append(ret.served, get_next_image(library).index[1]),
                    ret.start)
       ELSE LibDone("round", None, Some(get_next_image(library)),
                    <<get_next_image(library).index[1]>>, library.next_index)

LibNext ==
    \/ LibAddImage
    \/ LibRemoveImage
    \/ LibAdvancePointer
    \/ LibResetPointer
    \/ LibGetNextImage
    \/ LibRound

SpecLib == LibInit /\ [][LibNext]_vars

\* the image at place i (from 0) of the list, counted round the end
Cyclic(images, i) == images[(i % Len(images)) + 1]

\* C24: get_next_image leaves the library as it is, and n rounds of
\* get_next_image + advance_pointer over n > 0 unchanged images serve the
\* images in list order from the pointer on, each once, and bring the pointer
\* back to where it was.
C24_LibraryIsCircularQueue ==
    /\ [](( /\ last.cmd = "round"
            /\ Len(ret.served) = lib_count(library))
          => /\ \A i \in 1..lib_count(library) :
                    ret.served[i] = Cyclic(library.images, ret.start + i - 1)
             /\ library.next_index = ret.start)
    /\ [][last'.cmd = "get_next_image" => library' = library]_vars

\* three rounds over three images that began at the second have served the
\* second, the third and the first
C24_Witness ==
    /\ last.cmd = "round"
    /\ lib_count(library) = 3
    /\ ret.start = 1
    /\ ret.served = <<library.images[2], library.images[3], library.images[1]>>
    /\ library.next_index = 1

\* C29: the pointer is 0 when the library is empty and otherwise lies in
\* 0..n-1, so the place get_next_image reads is the pointer itself.
C29_PointerInRange ==
    IF library.images = << >> THEN library.next_index = 0
    ELSE /\ 0 <= library.next_index
         /\ library.next_index < lib_count(library)
         /\ get_next_image(library).index =
                Some(library.images[library.next_index + 1])

\* the last of three images was removed, two are left and the pointer is
\* at 0
C29_Witness ==
    /\ last.cmd = "remove_image"
    /\ ret.value = Some(TRUE)
    /\ lib_count(library) = 2
    /\ ret.arg[1] > library.images[2]
    /\ library.next_index = 0
    /\ ret.start = 0

\* C30: when another image than the one get_next_image would return is
\* removed, get_next_image returns the same image afterwards.
C30_RemovalKeepsTheNextImage ==
    [][( /\ last'.cmd = "remove_image"
         /\ ret'.value = Some(TRUE)
         /\ ret'.arg # get_next_image(library).index)
       => get_next_image(library').index = get_next_image(library).index]_vars

\* ------------------------------------------------------------------------
\* Specification: completed runs of the three commands, the idea list
\* never edited
\* ------------------------------------------------------------------------

RunsNext ==
    \/ CmdGenerate
    \/ CmdPublish
    \/ CmdFull

\* PUBLISH_TARGETS with three platforms, Telegram last
AllTargets == <<"max", "vk", "telegram">>

RunsInit ==
    /\ ideas \in FreshIdeaLists(MaxRunIdeas)
    /\ history = << >>
    /\ pending = None
    /\ clock = 0
    /\ publish_targets \in TargetConfigs \cup {AllTargets}
    /\ last = Report("start", 0, "start", << >>, NoFan)
    /\ ret = None
    /\ RemoteUnused
    /\ EnvDefault

SpecRuns == RunsInit /\ [][RunsNext]_vars

\* the history entries and the idea records with a given idea text
EntriesOf(text) == {i \in DOMAIN history : history[i].idea = text}

RecordsOf(text) == {i \in DOMAIN ideas : ideas[i].idea = text}

\* C25: the history never holds two entries for the same idea record: for
\* every idea text it holds at most as many entries as the list has records
\* with that text.
C25_NoIdeaPublishedTwice ==
    \A text \in Texts : Cardinality(EntriesOf(text)) <= Cardinality(RecordsOf(text))

\* ------------------------------------------------------------------------
\* Claims about the order of cmd_publish's writes and the recorded id
\* ------------------------------------------------------------------------

\* the history holds an entry for the draft as published
DraftInHistory(draft) ==
    \E i \in DOMAIN history :
        /\ history[i].idea = draft.idea
        /\ history[i].post_text = draft.post_text
        /\ Some(history[i].message_id) = draft.message_id

\* C26: in every state of cmd_publish's run, crashed ones included, a draft
\* whose status is 'published' has its entry in the history.
C26_PublishedDraftIsInHistory ==
    (DraftIsPending \/ pending = None) \/ DraftInHistory(pending[1])

\* cmd_publish has run to its end and written the status of the draft it
\* loaded as pending
C26_Witness ==
    /\ auto.pc = "done"
    /\ auto.exit = Some(0)
    /\ auto.draft # None
    /\ pending # None
    /\ pending[1].status = "published"
    /\ pending[1].published_by = Some("auto")
    /\ DraftInHistory(pending[1])

\* the id the claim names for a run: Telegram's when Telegram accepted,
\* else that of the first platform, in configured order, that accepted
NamedId(accepted) ==
    IF \E i \in DOMAIN accepted : accepted[i] = "telegram" THEN MsgId("telegram")
    ELSE MsgId(accepted[1])

\* C27: a run that publishes records as message_id Telegram's id when
\* Telegram accepted the post and otherwise the id of the first platform in
\* configured order that accepted it; the history entry gets that value, and
\* so does the draft cmd_publish writes.
C27_RecordedMessageId ==
    [][(last'.cmd \in {"publish", "full"} /\ last'.outcome = "published") =>
           /\ Len(history') = Len(history) + 1
           /\ history'[Len(history')].message_id = NamedId(last'.accepted)
           /\ last'.cmd = "publish" =>
                  pending'[1].message_id = Some(NamedId(last'.accepted))]_vars

\* cmd_publish has published to max and vk while Telegram refused, and
\* recorded the id max returned
C27_Witness ==
    /\ last.cmd = "publish"
    /\ last.outcome = "published"
    /\ last.accepted = <<"max", "vk">>
    /\ last.sends = <<"max", "vk", "telegram">>
    /\ pending[1].message_id = Some(MsgId("max"))
    /\ history[Len(history)].message_id = MsgId("max")

\* ------------------------------------------------------------------------
\* Specification: the staged workflow, cmd_generate and cmd_publish in turn,
\* every generation succeeding and every publish accepted somewhere
\* ------------------------------------------------------------------------

\* the runs that write take the clock from here to MaxClock
StagedInit ==
    /\ ideas \in FreshIdeaLists(MaxIdeas)
    /\ history = << >>
    /\ pending = None
    /\ clock = MaxClock - 2 * Len(ideas)
    /\ publish_targets \in TargetConfigs
    /\ last = Report("start", 0, "start", << >>, NoFan)
    /\ ret = None
    /\ RemoteUnused
    /\ EnvDefault

StagedGenerate ==
    /\ last.cmd \in {"start", "publish"}
    /\ CmdGenerate
    /\ last'.exit = 0

StagedPublish ==
    /\ last.cmd = "generate"
    /\ CmdPublish
    /\ last'.exit = 0

StagedNext ==
    \/ StagedGenerate
    \/ StagedPublish

SpecStaged == StagedInit /\ [][StagedNext]_vars

\* the schedule keeps running the two jobs
SpecStagedFair == SpecStaged /\ WF_vars(StagedNext)

AllUsed == \A i \in DOMAIN ideas : ~Unused(ideas[i])

\* the history is the list of ideas up to some place, in list order, and the
\* ideas up to that place are the used ones
PublishedInListOrder ==
    /\ Len(history) <= Len(ideas)
    /\ \A i \in DOMAIN ideas :
           IF i <= Len(history)
           THEN history[i].idea = ideas[i].idea /\ ~Unused(ideas[i])
           ELSE Unused(ideas[i])

\* C28: the staged workflow publishes the ideas in list order, reaches the
\* state in which every idea is used and published, and from then on
\* cmd_generate ends with exit code 0 and writes no draft.
C28_StagedWorkflowProgress ==
    /\ []PublishedInListOrder
    /\ <>[](AllUsed /\ Len(history) = Len(ideas))
    /\ [][(AllUsed /\ last'.cmd = "generate") =>
              (last'.exit = 0 /\ last'.outcome = "no_ideas" /\ pending' = pending)]_vars

\* two different ideas have been published in list order and cmd_generate
\* has then found nothing to do
C28_Witness ==
    /\ Len(ideas) = 2
    /\ ideas[1].idea # ideas[2].idea
    /\ AllUsed
    /\ Len(history) = 2
    /\ history[1].idea = ideas[1].idea
    /\ history[2].idea = ideas[2].idea
    /\ last.cmd = "generate"
    /\ last.outcome = "no_ideas"
    /\ pending[1].status = "published"

====
